---- MODULE Spec2Model ----
(***************************************************************************)
(* Verification model of the credential rotation manager                   *)
(* (ApiKeyRotationManager + PersistenceService) and of the fallback        *)
(* controller (FallbackService + FallbackManager) of the bridge server.    *)
(*                                                                         *)
(* Indices are 0-based as in the source (currentIndex); the key list is a  *)
(* TLA+ sequence, so keys[currentIndex + 1] is this.keys[this.currentIndex]*)
(***************************************************************************)
EXTENDS Integers, Sequences, FiniteSets, TLC

(***************************************************************************)
(* Bounds of the model                                                     *)
(***************************************************************************)
\* largest number of configured API keys
MaxKeys == 2
\* config.maxConsecutiveFailures used by the model
maxConsecutiveFailures == 2
\* config.cooldownPeriod in clock ticks
cooldownPeriod == 2
\* last value of the simulated clock
MaxTime == 3
\* cap on totalRequests
MaxRequests == 3
\* cap on the number of outcome reports
MaxReports == 4
\* number of concurrent callers of the rotation manager
NumCallers == 2
\* cap on FallbackState.switchCount
MaxSwitches == 2
\* cap on the continuations queued behind a save
MaxQueue == 2
\* number of requests the client serves at once
NumRequests == 2
\* cap on the sendMessageStream calls
MaxStarted == 3
\* cap on the backend calls of one request
MaxCalls == 2
\* cap on the acquisitions and on the reports made over a failing store
MaxStoreOps == 2
\* number of processes that share the persistence file
NumProcs == 2

Strategies == {"round-robin", "random", "least-used"}

VARIABLES
  strategy,       \* config.strategy
  keys,           \* this.keys
  currentIndex,   \* this.currentIndex
  totalRequests,  \* this.totalRequests
  now,            \* the wall clock (Date.now())
  file,           \* content of the persistence file, or NoFile
  lastOp,         \* history: the last operation, its inputs, result and pre-state
  returned        \* history: key indices returned by getNextApiKey since initialize

rotVars == <<strategy, keys, currentIndex, totalRequests, now, file, lastOp, returned>>

VARIABLES
  fbEnabled,        \* FallbackConfig.enabled
  autoResetEnabled, \* FallbackConfig.autoResetEnabled
  fbConfig,         \* FallbackConfig: primaryModel, fallbackModel, triggerConditions
  fallbackService,  \* FallbackManager.fallbackService is not null
  fbState,          \* FallbackService.state
  fbDb,             \* the fallback_state row of the SQLite store, or NoRow
  fbLoadPending,    \* the constructor's loadPersistedState() has not resumed yet
  autoResetTimer,   \* FallbackManager.autoResetTimer: "null", "pending" or "fired"
  liveTimers,       \* timeouts scheduled by setTimeout, neither fired nor cleared
  fbQueue,          \* continuations waiting behind `await this.saveState()`, FIFO
  fbLast            \* history: the last fallback operation, its result and pre-state

fbVars == <<fbEnabled, autoResetEnabled, fbConfig, fallbackService, fbState, fbDb,
            fbLoadPending, autoResetTimer, liveTimers, fbQueue, fbLast>>

\* the configuration and the service handle of the FallbackManager
fbSetup == <<fbEnabled, autoResetEnabled, fbConfig, fallbackService>>

\* the auto-reset timer of the FallbackManager
fbTimer == <<autoResetTimer, liveTimers>>

VARIABLES
  pc,        \* per caller: "idle", "locked" (lock taken, write pending) or "waiting"
  snap,      \* per caller: the PersistenceData built by saveState()
  retries,   \* per caller: iterations of the acquireLock loop used up
  lockHeld   \* the lock file exists

saveVars == <<pc, snap, retries, lockHeld>>

VARIABLES
  req,        \* per request of GeminiApiClient: position, key, error, counters
  defaultKey, \* process.env.GEMINI_API_KEY is set
  started,    \* history: number of sendMessageStream calls made so far
  client      \* GeminiApiClient: isInitializing, rotationService is not null

orchVars == <<req, defaultKey, started, client>>

VARIABLES
  storeUp,    \* the persistence stores can be locked and written
  lockFile,   \* the lock file shared by the processes: exists, age, pid written
  lpc,        \* per process: the file-system call its saveData is about to make
  tries,      \* per process: the loop counter i of acquireLock
  lockLog     \* history: the last removal of the lock file, stale locks removed

lockVars == <<lockFile, lpc, tries, lockLog>>

storeVars == <<storeUp, lockVars>>

VARIABLES
  toolCall    \* a tool call on its way: the id sent to the caller, the name parsed back

VARIABLES
  conv,       \* executeStreamRequest: the caller's message list and what each attempt sent
  stream,     \* handleStreamResponse: the chunks written to one streamed response
  acct,       \* MultiAccountManager: accounts, current index, switch history
  cliCall,    \* executeGeminiCli: child process, timer and settlement of one call
  chat        \* CLI bridge handleChatCompletions: rotator counters and requests

bridgeVars == <<conv, stream, acct, cliCall, chat>>

toolVars == <<toolCall>>

otherThanBridge == <<rotVars, fbVars, saveVars, orchVars, storeVars, toolVars>>

otherThanTool == <<rotVars, fbVars, saveVars, orchVars, storeVars, bridgeVars>>

vars == <<rotVars, fbVars, saveVars, orchVars, storeVars, toolVars, bridgeVars>>

otherThanRot == <<fbVars, saveVars, orchVars, storeVars, toolVars, bridgeVars>>

otherThanFb == <<rotVars, saveVars, orchVars, storeVars, toolVars, bridgeVars>>

otherThanConc == <<fbVars, orchVars, storeVars, toolVars, bridgeVars>>

otherThanLock == <<rotVars, fbVars, saveVars, orchVars, storeUp, toolVars, bridgeVars>>

(***************************************************************************)
(* Values                                                                  *)
(***************************************************************************)
NoFile == [missing |-> TRUE]

\* a JavaScript value held in a Date-typed field
Undefined == [kind |-> "undefined", t |-> 0]
DateAt(t) == [kind |-> "Date", t |-> t]

\* JSON.stringify turns a Date into its ISO string; JSON.parse leaves the string
JsonDate(d) == IF d.kind = "Date" THEN [kind |-> "string", t |-> d.t] ELSE d

\* operand < of the JavaScript relational comparison `new Date() < v`:
\* a Date operand is compared by time value, a string operand converts to NaN
DateBefore(t, v) == v.kind = "Date" /\ t < v.t

Truthy(v) == v.kind # "undefined"

FreshKey ==
  [status |-> "active", requestCount |-> 0, successCount |-> 0,
   failureCount |-> 0, consecutiveFailures |-> 0, cooldownUntil |-> Undefined]

initializeApiKeys(n) == [i \in 1..n |-> FreshKey]

(***************************************************************************)
(* Tool-call ids: strings are sequences of characters                      *)
(***************************************************************************)
MaxNameLen == 3
MaxUuidLen == 2

Strs(chars, n) == UNION {[1..k -> chars] : k \in 1..n}

\* function names: letters and the delimiter
ToolNames == Strs({"a", "_"}, MaxNameLen)

\* randomUUID(): hexadecimal digits and hyphens
Uuids == Strs({"f", "-"}, MaxUuidLen)

CallPrefix == <<"c", "a", "l", "l">>

UnknownTool == <<"unknown_tool_from_id">>

\* String.prototype.split(sep)
RECURSIVE split(_, _)
split(s, sep) ==
  IF \E i \in 1..Len(s) : s[i] = sep
  THEN LET i == CHOOSE i \in 1..Len(s) : s[i] = sep /\ \A j \in 1..(i - 1) : s[j] # sep
       IN <<SubSeq(s, 1, i - 1)>> \o split(SubSeq(s, i + 1, Len(s)), sep)
  ELSE <<s>>

\* Array.prototype.join(sep)
RECURSIVE join(_, _)
join(parts, sep) ==
  IF parts = <<>> THEN <<>>
  ELSE IF Len(parts) = 1 THEN parts[1]
  ELSE parts[1] \o <<sep>> \o join(Tail(parts), sep)

\* `call_${name}_${randomUUID()}`
toolCallId(name, uuid) == CallPrefix \o <<"_">> \o name \o <<"_">> \o uuid

\* a parser that takes the part after the prefix for the whole name
parseFunctionNameFromId_SecondPart(id) ==
  LET parts == split(id, "_")
  IN IF Len(parts) > 2 /\ parts[1] = CallPrefix THEN parts[2] ELSE UnknownTool

parseFunctionNameFromId(id) ==
  LET parts == split(id, "_")
  IN IF Len(parts) > 2 /\ parts[1] = CallPrefix
     THEN join(SubSeq(parts, 2, Len(parts) - 1), "_")
     ELSE UnknownTool

NoToolCall == [pc |-> "none", name |-> <<>>, id |-> <<>>, response |-> <<>>]

\* the stream transformer announces a call of tool `name` under a new id
EmitToolCall ==
  /\ toolCall.pc = "none"
  /\ \E name \in ToolNames, uuid \in Uuids :
       toolCall' = [pc |-> "called", name |-> name, id |-> toolCallId(name, uuid),
                    response |-> <<>>]
  /\ UNCHANGED otherThanTool

\* openAIMessageToGemini, role 'tool': the caller's message carries the id in
\* tool_call_id, the functionResponse is named by what the id parses to
ToolResponseToGemini ==
  /\ toolCall.pc = "called"
  /\ toolCall' = [toolCall EXCEPT !.pc = "answered",
                                  !.response = parseFunctionNameFromId(toolCall.id)]
  /\ UNCHANGED otherThanTool

(***************************************************************************)
(* executeStreamRequest: translating the caller's messages                 *)
(***************************************************************************)
MaxMsgs == 3

Roles == {"system", "user", "assistant"}

Texts == {"a", "b"}

OpenAIMessages == [role : Roles, content : Texts]

MessageLists == UNION {[1..k -> OpenAIMessages] : k \in 1..MaxMsgs}

NoContent == [role |-> "none", text |-> "none", from |-> "none"]

\* openAIMessageToGemini for assistant, system and user messages with string
\* content; `from` remembers the role of the message the Content was made of
openAIMessageToGemini(msg) ==
  [role |-> IF msg.role = "assistant" THEN "model" ELSE "user",
   text |-> msg.content, from |-> msg.role]

\* messages.findIndex(msg => msg.role === 'system'), 0 for -1
findSystemIndex(messages) ==
  IF \E i \in 1..Len(messages) : messages[i].role = "system"
  THEN CHOOSE i \in 1..Len(messages) :
         /\ messages[i].role = "system"
         /\ \A j \in 1..(i - 1) : messages[j].role # "system"
  ELSE 0

\* messages.splice(index, 1): the list that is left
splice(messages, index) ==
  SubSeq(messages, 1, index - 1) \o SubSeq(messages, index + 1, Len(messages))

\* lines 380-397: the caller's array as line 388 leaves it, the instruction,
\* the history and the last message
translate(messages, useInternalPrompt) ==
  LET idx == IF useInternalPrompt THEN 0 ELSE findSystemIndex(messages)
      rest == IF idx = 0 THEN messages ELSE splice(messages, idx)
      contents == [i \in 1..Len(rest) |-> openAIMessageToGemini(rest[i])]
  IN [messages |-> rest,
      systemInstruction |-> IF idx = 0 THEN NoContent
                            ELSE openAIMessageToGemini(messages[idx]),
      history |-> IF contents = <<>> THEN <<>>
                  ELSE SubSeq(contents, 1, Len(contents) - 1),
      lastMessage |-> IF contents = <<>> THEN NoContent ELSE contents[Len(contents)]]

NoConv ==
  [pc |-> "none", useInternalPrompt |-> FALSE, original |-> <<>>, messages |-> <<>>,
   sent |-> <<>>]

\* sendMessageStream is called with a message list
ReceiveMessages ==
  /\ conv.pc = "none"
  /\ \E msgs \in MessageLists, internal \in BOOLEAN :
       conv' = [pc |-> "received", useInternalPrompt |-> internal,
                original |-> msgs, messages |-> msgs, sent |-> <<>>]
  /\ UNCHANGED <<stream, acct, cliCall, chat>>
  /\ UNCHANGED otherThanBridge

\* one pass of executeStreamRequest up to the backend call (lines 380-487)
TranslateRequest ==
  /\ conv.pc \in {"received", "retry"}
  /\ LET t == translate(conv.messages, conv.useInternalPrompt)
     IN conv' = IF t.lastMessage = NoContent
                THEN [conv EXCEPT !.pc = "failed", !.messages = t.messages]
                ELSE [conv EXCEPT
                        !.pc = IF conv.pc = "received" THEN "sent" ELSE "done",
                        !.messages = t.messages,
                        !.sent = Append(@, [systemInstruction |-> t.systemInstruction,
                                            history |-> t.history,
                                            lastMessage |-> t.lastMessage])]
  /\ UNCHANGED <<stream, acct, cliCall, chat>>
  /\ UNCHANGED otherThanBridge

\* the backend call fails, the fallback is triggered and executeStreamRequest
\* is called again with the same `messages` (lines 519-542)
RetryWithMessages ==
  /\ conv.pc = "sent"
  /\ conv' = [conv EXCEPT !.pc = "retry"]
  /\ UNCHANGED <<stream, acct, cliCall, chat>>
  /\ UNCHANGED otherThanBridge

(***************************************************************************)
(* CLI bridge: calculateTimeout and executeGeminiCli                       *)
(***************************************************************************)
\* process.env.X as parseInt reads it: NaN when unset or not a number
NaN == [nan |-> TRUE, n |-> 0]

Num(v) == [nan |-> FALSE, n |-> v]

EnvNumbers == {0, 30, 150, 400}

EnvValues == {NaN} \cup {Num(v) : v \in EnvNumbers}

Envs ==
  [DEFAULT_TIMEOUT : EnvValues, FUNCTION_CALL_TIMEOUT : EnvValues,
   COMPLEX_QUERY_TIMEOUT : EnvValues, MAX_TIMEOUT : EnvValues]

defaultTimeout == 60
functionCallTimeout == 120
complexQueryTimeout == 180
defaultMaxTimeout == 300

\* parseInt(process.env.X) || d : NaN and 0 are falsy
parseIntOr(e, d) == IF e.nan \/ e.n = 0 THEN d ELSE e.n

\* the value picked for the shape of the request, before the cap
shapeTimeout(env, hasComplexArgs, hasTools) ==
  IF hasComplexArgs THEN parseIntOr(env.COMPLEX_QUERY_TIMEOUT, complexQueryTimeout)
  ELSE IF hasTools THEN parseIntOr(env.FUNCTION_CALL_TIMEOUT, functionCallTimeout)
  ELSE parseIntOr(env.DEFAULT_TIMEOUT, defaultTimeout)

\* a calculateTimeout that forgets the cap
calculateTimeout_NoCap(env, hasComplexArgs, hasTools) ==
  shapeTimeout(env, hasComplexArgs, hasTools) * 1000

calculateTimeout(env, hasComplexArgs, hasTools) ==
  LET timeout == shapeTimeout(env, hasComplexArgs, hasTools)
      maxTimeout == parseIntOr(env.MAX_TIMEOUT, defaultMaxTimeout)
  IN (IF timeout > maxTimeout THEN maxTimeout ELSE timeout) * 1000

NoEnv ==
  [DEFAULT_TIMEOUT |-> NaN, FUNCTION_CALL_TIMEOUT |-> NaN,
   COMPLEX_QUERY_TIMEOUT |-> NaN, MAX_TIMEOUT |-> NaN]

NoCliCall ==
  [env |-> NoEnv, hasComplexArgs |-> FALSE, hasTools |-> FALSE, timeoutMs |-> 0,
   child |-> "none", timer |-> "none", outcome |-> "none"]

\* resolve / reject of a promise: only the first one counts
settle(outcome, new) == IF outcome = "none" THEN new ELSE outcome

\* executeGeminiCli up to the return of the promise: spawn, handlers, timer
ExecuteGeminiCli ==
  /\ cliCall.child = "none"
  /\ \E env \in Envs, hasComplexArgs \in BOOLEAN, hasTools \in BOOLEAN :
       cliCall' = [env |-> env, hasComplexArgs |-> hasComplexArgs, hasTools |-> hasTools,
                   timeoutMs |-> calculateTimeout(env, hasComplexArgs, hasTools),
                   child |-> "running", timer |-> "armed", outcome |-> "none"]
  /\ UNCHANGED <<conv, stream, acct, chat>>
  /\ UNCHANGED otherThanBridge

\* child.on('close'): exit code 0 resolves, any other code rejects
ChildCloses ==
  /\ cliCall.child \in {"running", "signalled"}
  /\ \E code \in {0, 1} :
       /\ cliCall.child = "signalled" => code = 1
       /\ cliCall' = [cliCall EXCEPT
            !.child = "exited",
            !.outcome = settle(@, IF code = 0 THEN "result" ELSE "cli-failure")]
  /\ UNCHANGED <<conv, stream, acct, chat>>
  /\ UNCHANGED otherThanBridge

\* child.on('error'): the process could not be spawned
ChildError ==
  /\ cliCall.child = "running"
  /\ cliCall.outcome = "none"
  /\ cliCall' = [cliCall EXCEPT !.child = "failed", !.outcome = settle(@, "cli-failure")]
  /\ UNCHANGED <<conv, stream, acct, chat>>
  /\ UNCHANGED otherThanBridge

\* the setTimeout callback: child.kill('SIGTERM') and reject
TimerFires ==
  /\ cliCall.timer = "armed"
  /\ cliCall' = [cliCall EXCEPT
       !.timer = "fired",
       !.child = IF @ = "running" THEN "signalled" ELSE @,
       !.outcome = settle(@, "timeout")]
  /\ UNCHANGED <<conv, stream, acct, chat>>
  /\ UNCHANGED otherThanBridge

(***************************************************************************)
(* CLI bridge: SimpleApiKeyRotator and handleChatCompletions               *)
(***************************************************************************)
NumChatReqs == 2

ChatReqs == 1..NumChatReqs

\* the two copies of the handler: enhanced-api-server.cjs and part_000
Variants == {"server", "bridge"}

\* what the CLI printed: plain text, a reasoning part alone or with a final
\* reply, or a function call
OutputKinds == {"text", "reasoning", "reasoning+final", "function_call"}

NoStats == [requests |-> 0, successes |-> 0, failures |-> 0]

IdleChatReq == [pc |-> "idle", apiKey |-> 0, stream |-> FALSE, status |-> 0]

NoChat ==
  [variant |-> "none", isInitialized |-> FALSE, currentIndex |-> 0,
   usageStats |-> <<>>, req |-> [r \in ChatReqs |-> IdleChatReq]]

NoStream == [r \in ChatReqs |-> <<>>]

\* SimpleApiKeyRotator.getNextApiKey: the key (0 for null) and the rotator after it
rotatorGetNextApiKey(c) ==
  IF Len(c.usageStats) = 0 THEN [apiKey |-> 0, chat |-> c]
  ELSE LET k == c.currentIndex + 1
       IN [apiKey |-> k,
           chat |-> [c EXCEPT !.currentIndex = (c.currentIndex + 1) % Len(c.usageStats),
                              !.usageStats[k].requests = @ + 1]]

\* SimpleApiKeyRotator.reportUsage
rotatorReportUsage(c, apiKey, success) ==
  IF apiKey \in 1..Len(c.usageStats)
  THEN IF success THEN [c EXCEPT !.usageStats[apiKey].successes = @ + 1]
                  ELSE [c EXCEPT !.usageStats[apiKey].failures = @ + 1]
  ELSE c

\* the key the catch block reports a failure for: the local apiKey in
\* enhanced-api-server.cjs, req.apiKey (never assigned) in part_000
catchKey(variant, apiKey) == IF variant = "server" THEN apiKey ELSE 0

SseChunk == [type |-> "chunk", finish_reason |-> "stop", tool_calls |-> FALSE]

SseSay(what) == [type |-> what, finish_reason |-> "none", tool_calls |-> FALSE]

SseDone == [type |-> "[DONE]", finish_reason |-> "none", tool_calls |-> FALSE]

\* the res.write calls of a streamed response
handleStreamResponse(variant, kind) ==
  IF variant = "server" /\ kind \in {"reasoning", "reasoning+final"}
  THEN <<SseSay("say-reasoning")>>
       \o (IF kind = "reasoning+final" THEN <<SseSay("say-text")>> ELSE <<>>)
       \o <<SseDone>>
  ELSE <<SseChunk, SseDone>>

\* the server starts, with or without a loaded rotator
StartServer ==
  /\ chat.variant = "none"
  /\ \E v \in Variants, init \in BOOLEAN, n \in 1..MaxKeys :
       chat' = [chat EXCEPT !.variant = v, !.isInitialized = init,
                            !.usageStats = [i \in 1..n |-> NoStats]]
  /\ UNCHANGED <<conv, stream, acct, cliCall>>
  /\ UNCHANGED otherThanBridge

\* handleChatCompletions up to `await executeGeminiCli(...)`
HandleChatCompletions(r) ==
  /\ chat.variant # "none"
  /\ chat.req[r].pc = "idle"
  /\ \E valid \in BOOLEAN, streamFlag \in BOOLEAN :
       LET keyFirst == chat.variant = "server"
           takesKey == chat.isInitialized /\ (keyFirst \/ valid)
           got == IF takesKey THEN rotatorGetNextApiKey(chat)
                              ELSE [apiKey |-> 0, chat |-> chat]
       IN chat' = [got.chat EXCEPT !.req[r] =
                     IF valid
                     THEN [pc |-> "cli", apiKey |-> got.apiKey, stream |-> streamFlag,
                           status |-> 0]
                     ELSE [pc |-> "done", apiKey |-> got.apiKey, stream |-> streamFlag,
                           status |-> 400]]
  /\ UNCHANGED <<conv, stream, acct, cliCall>>
  /\ UNCHANGED otherThanBridge

\* executeGeminiCli resolved: success report and the response
CliResolves(r) ==
  /\ chat.req[r].pc = "cli"
  /\ \E kind \in OutputKinds :
       LET q == chat.req[r]
           c == IF chat.isInitialized /\ q.apiKey # 0
                THEN rotatorReportUsage(chat, q.apiKey, TRUE) ELSE chat
       IN /\ chat' = [c EXCEPT !.req[r].pc = "done", !.req[r].status = 200]
          /\ stream' = IF q.stream
                        THEN [stream EXCEPT ![r] = handleStreamResponse(chat.variant, kind)]
                        ELSE stream
  /\ UNCHANGED <<conv, acct, cliCall>>
  /\ UNCHANGED otherThanBridge

\* executeGeminiCli rejected: the catch block
CliRejects(r) ==
  /\ chat.req[r].pc = "cli"
  /\ LET q == chat.req[r]
         k == catchKey(chat.variant, q.apiKey)
         c == IF chat.isInitialized /\ k # 0
              THEN rotatorReportUsage(chat, k, FALSE) ELSE chat
     IN chat' = [c EXCEPT !.req[r].pc = "done", !.req[r].status = 500]
  /\ UNCHANGED <<conv, stream, acct, cliCall>>
  /\ UNCHANGED otherThanBridge

(***************************************************************************)
(* MultiAccountManager and the enhanced Flash fallback handler             *)
(***************************************************************************)
MaxAccounts == 3
MaxQuota == 2
MaxUsage == 3

AccountStrategies == {"round_robin", "least_used", "random"}

NoSwitch == [op |-> "none", from |-> 0, result |-> "none"]

NoAcct ==
  [rotationStrategy |-> "none", enableFlashFallback |-> FALSE, accounts |-> <<>>,
   currentAccountIndex |-> 0, last |-> NoSwitch]

\* canUseProModel('gemini-2.5-pro') with account index i (0-based) current
canUseProModel(accounts, i) ==
  /\ accounts[i + 1].status = "active"
  /\ accounts[i + 1].proUsageCount < accounts[i + 1].proQuotaLimit

\* recordProModelUsage for a Pro model
recordProModelUsage(accounts, i) ==
  LET count == accounts[i + 1].proUsageCount + 1
  IN [accounts EXCEPT ![i + 1].proUsageCount = count,
                      ![i + 1].status =
                        IF count >= accounts[i + 1].proQuotaLimit
                        THEN "quota_exceeded" ELSE @]

\* least_used: the first active account with the smallest count, 0 if none
leastUsedIndex(accounts) ==
  LET active == {i \in 1..Len(accounts) : accounts[i].status = "active"}
  IN IF active = {} THEN 0
     ELSE (CHOOSE i \in active :
             /\ \A j \in active : accounts[i].proUsageCount <= accounts[j].proUsageCount
             /\ \A j \in active : j < i =>
                  accounts[j].proUsageCount > accounts[i].proUsageCount) - 1

\* getNextAccountIndex: the indices it can return (several only for random)
getNextAccountIndex(strat, accounts, cur) ==
  IF strat = "least_used" THEN {leastUsedIndex(accounts)}
  ELSE IF strat = "random"
  THEN LET active == {i \in 0..(Len(accounts) - 1) : accounts[i + 1].status = "active"}
       IN IF active = {} THEN {cur} ELSE active
  ELSE {(cur + 1) % Len(accounts)}

\* switchToNextAccount: the loop from `attempts`, as the set of its results
RECURSIVE switchToNextAccount(_, _, _, _, _)
switchToNextAccount(strat, accounts, startIndex, cur, attempts) ==
  IF attempts >= Len(accounts)
  THEN {[found |-> FALSE, index |-> startIndex]}
  ELSE UNION {IF canUseProModel(accounts, i)
              THEN {[found |-> TRUE, index |-> i]}
              ELSE switchToNextAccount(strat, accounts, startIndex, i, attempts + 1) :
              i \in getNextAccountIndex(strat, accounts, cur)}

FreshAccount(limit) ==
  [status |-> "active", proUsageCount |-> 0, proQuotaLimit |-> limit]

\* new MultiAccountManager(config) with fresh accounts
CreateManager ==
  /\ acct.rotationStrategy = "none"
  /\ \E strat \in AccountStrategies, flash \in BOOLEAN, n \in 2..MaxAccounts :
       \E limits \in [1..n -> 1..MaxQuota] :
         acct' = [rotationStrategy |-> strat, enableFlashFallback |-> flash,
                  accounts |-> [i \in 1..n |-> FreshAccount(limits[i])],
                  currentAccountIndex |-> 0, last |-> NoSwitch]
  /\ UNCHANGED <<conv, stream, cliCall, chat>>
  /\ UNCHANGED otherThanBridge

\* recordModelUsage after a request served by the Pro model
RecordModelUsage ==
  /\ acct.rotationStrategy # "none"
  /\ acct.accounts[acct.currentAccountIndex + 1].proUsageCount < MaxUsage
  /\ acct' = [acct EXCEPT
       !.accounts = recordProModelUsage(@, acct.currentAccountIndex),
       !.last = [op |-> "record", from |-> acct.currentAccountIndex, result |-> "none"]]
  /\ UNCHANGED <<conv, stream, cliCall, chat>>
  /\ UNCHANGED otherThanBridge

\* rotateToNextAccount before a request
RotateToNextAccount ==
  /\ acct.rotationStrategy # "none"
  /\ \E i \in getNextAccountIndex(acct.rotationStrategy, acct.accounts,
                                    acct.currentAccountIndex) :
       acct' = [acct EXCEPT
         !.currentAccountIndex = i,
         !.last = [op |-> "rotate", from |-> acct.currentAccountIndex, result |-> "none"]]
  /\ UNCHANGED <<conv, stream, cliCall, chat>>
  /\ UNCHANGED otherThanBridge

\* handleEnhancedFlashFallback: the backend reported that the current
\* account's Pro quota is used up
HandleEnhancedFlashFallback ==
  /\ acct.rotationStrategy # "none"
  /\ acct.accounts[acct.currentAccountIndex + 1].proUsageCount < MaxUsage
  /\ LET cur == acct.currentAccountIndex
         recorded == recordProModelUsage(acct.accounts, cur)
     IN \E sw \in switchToNextAccount(acct.rotationStrategy, recorded, cur, cur, 0),
           authOk \in BOOLEAN :
          acct' = [acct EXCEPT
            !.accounts = recorded,
            !.currentAccountIndex = sw.index,
            !.last = [op |-> "flash-fallback", from |-> cur,
                      result |-> IF sw.found /\ authOk THEN "switched"
                                 ELSE IF acct.enableFlashFallback THEN "flash"
                                 ELSE "rejected",
                      authFailed |-> sw.found /\ ~authOk]]
  /\ UNCHANGED <<conv, stream, cliCall, chat>>
  /\ UNCHANGED otherThanBridge

BridgeIdle ==
  /\ conv = NoConv
  /\ stream = NoStream
  /\ acct = NoAcct
  /\ cliCall = NoCliCall
  /\ chat = NoChat

(***************************************************************************)
(* PersistenceService / saveState / restoreState                           *)
(***************************************************************************)
\* saveState() with a catch block that rethrows the persistence error
saveStateThrows_Rethrows(up) == ~up

\* saveState() of the rotation manager and of the FallbackService: the error
\* of the persistence layer (lock not acquired, write failed) is caught and
\* logged, so the caller never sees it
saveStateThrows(up) == FALSE

\* what a save leaves in the store: the new content, or the old one when the
\* lock or the write failed
persist(up, old, new) == IF up THEN new ELSE old

JsonKey(k) == [k EXCEPT !.cooldownUntil = JsonDate(k.cooldownUntil)]

\* saveState: the PersistenceData written by JSON.stringify
saveState(ks, idx, total) ==
  [missing |-> FALSE, currentIndex |-> idx, totalRequests |-> total,
   keys |-> [i \in 1..Len(ks) |-> JsonKey(ks[i])]]

\* Object.assign(this.keys[index], persistedKey): an undefined field is not
\* serialized, so the fresh (undefined) value stays
restoreKey(persistedKey) == persistedKey

\* a restoreState that skips the size test of line 354
restoreState_IgnoresSize(n, data) ==
  IF ~data.missing
  THEN [keys |-> [i \in 1..n |-> IF i <= Len(data.keys) THEN restoreKey(data.keys[i])
                                                       ELSE FreshKey],
        currentIndex |-> data.currentIndex,
        totalRequests |-> data.totalRequests]
  ELSE [keys |-> initializeApiKeys(n), currentIndex |-> 0, totalRequests |-> 0]

restoreState(n, data) ==
  IF ~data.missing /\ Len(data.keys) = n
  THEN [keys |-> [i \in 1..n |-> restoreKey(data.keys[i])],
        currentIndex |-> data.currentIndex,
        totalRequests |-> data.totalRequests]
  ELSE [keys |-> initializeApiKeys(n), currentIndex |-> 0, totalRequests |-> 0]

(***************************************************************************)
(* Selection                                                               *)
(***************************************************************************)
\* isKeyAvailable: result and the (possibly reactivated) key
isKeyAvailable(key, t) ==
  IF key.status = "failed"
  THEN IF Truthy(key.cooldownUntil) /\ DateBefore(t, key.cooldownUntil)
       THEN [ok |-> FALSE, key |-> key]
       ELSE [ok |-> TRUE,
             key |-> [key EXCEPT !.status = "active", !.cooldownUntil = Undefined]]
  ELSE [ok |-> key.status = "active", key |-> key]

updateKeyUsage(key) == [key EXCEPT !.requestCount = @ + 1]

\* findLeastUsedKeyIndex: forEach with a strict <, minIndex starts at 0
RECURSIVE LeastUsedFrom(_, _, _, _)
LeastUsedFrom(ks, i, minUsage, minIndex) ==
  IF i > Len(ks) THEN minIndex
  ELSE IF ks[i].status = "active" /\ (minUsage = -1 \/ ks[i].requestCount < minUsage)
       THEN LeastUsedFrom(ks, i + 1, ks[i].requestCount, i - 1)
       ELSE LeastUsedFrom(ks, i + 1, minUsage, minIndex)

findLeastUsedKeyIndex(ks) == LeastUsedFrom(ks, 1, -1, 0)

\* moveToNextKey with the round-robin step not wrapped around
moveToNextKey_NoWrap(strat, idx, ks, rnd) ==
  CASE strat = "round-robin" -> idx + 1
    [] strat = "random"      -> rnd
    [] strat = "least-used"  -> findLeastUsedKeyIndex(ks)
    [] OTHER                 -> idx + 1

moveToNextKey(strat, idx, ks, rnd) ==
  CASE strat = "round-robin" -> (idx + 1) % Len(ks)
    [] strat = "random"      -> rnd
    [] strat = "least-used"  -> findLeastUsedKeyIndex(ks)
    [] OTHER                 -> (idx + 1) % Len(ks)

\* the while loop of getNextApiKey; rnd[a] is the Math.random() draw of attempt a
RECURSIVE getNextLoop(_, _, _, _, _, _)
getNextLoop(strat, ks, idx, attempts, rnd, t) ==
  IF attempts >= Len(ks)
  THEN [found |-> FALSE, idx |-> idx, keys |-> ks, examined |-> attempts]
  ELSE LET a == isKeyAvailable(ks[idx + 1], t)
       IN IF a.ok
          THEN [found |-> TRUE, idx |-> idx, examined |-> attempts + 1,
                keys |-> [ks EXCEPT ![idx + 1] = updateKeyUsage(a.key)]]
          ELSE getNextLoop(strat, ks, moveToNextKey(strat, idx, ks, rnd[attempts + 1]),
                           attempts + 1, rnd, t)

Draws(strat, n) ==
  IF strat = "random" THEN [1..n -> 0..(n - 1)] ELSE {[i \in 1..n |-> 0]}

(***************************************************************************)
(* Auxiliary definitions over the pre-state, recorded in lastOp            *)
(***************************************************************************)
\* a key that a call at time t may use: not in cooldown, or cooldown over
Usable(key, t) ==
  ~(key.status = "failed" /\ Truthy(key.cooldownUntil) /\ t < key.cooldownUntil.t)

AnyUsable(ks, t) == \E i \in 1..Len(ks) : Usable(ks[i], t)

\* index of the active key with the smallest requestCount, lowest index first;
\* -1 when no key is active
LeastUsedActive(ks) ==
  LET act == {i \in 1..Len(ks) : ks[i].status = "active"}
  IN IF act = {} THEN -1
     ELSE (CHOOSE i \in act :
             \A j \in act : \/ ks[i].requestCount < ks[j].requestCount
                            \/ (ks[i].requestCount = ks[j].requestCount /\ i <= j)) - 1

RECURSIVE ReportsFrom(_, _)
ReportsFrom(ks, i) ==
  IF i > Len(ks) THEN 0
  ELSE ks[i].successCount + ks[i].failureCount + ReportsFrom(ks, i + 1)

Reports(ks) == ReportsFrom(ks, 1)

(***************************************************************************)
(* Rotation manager: operations                                            *)
(***************************************************************************)
NoOp == [op |-> "none"]

RotInit ==
  /\ strategy \in Strategies
  /\ \E n \in 1..MaxKeys :
       /\ keys = initializeApiKeys(n)
       /\ file = saveState(initializeApiKeys(n), 0, 0)
  /\ currentIndex = 0
  /\ totalRequests = 0
  /\ now = 0
  /\ lastOp = NoOp
  /\ returned = <<>>

\* getNextApiKey(): returns keys[idx].key, or throws 'No available API keys found'
GetNextApiKey ==
  /\ totalRequests < MaxRequests
  /\ \E rnd \in Draws(strategy, Len(keys)) :
       LET r == getNextLoop(strategy, keys, currentIndex, 0, rnd, now)
       IN /\ keys' = r.keys
          /\ currentIndex' = r.idx
          /\ totalRequests' = IF r.found THEN totalRequests + 1 ELSE totalRequests
          /\ file' = IF r.found
                     THEN persist(storeUp, file,
                                  saveState(r.keys, r.idx, totalRequests + 1))
                     ELSE file
          /\ lastOp' = [op |-> "acquire",
                        found |-> r.found /\ ~saveStateThrows(storeUp),
                        selected |-> r.found, idx |-> r.idx,
                        examined |-> r.examined,
                        preKey |-> IF r.found THEN keys[r.idx + 1] ELSE FreshKey,
                        preUsable |-> AnyUsable(keys, now),
                        preLeast |-> LeastUsedActive(keys), time |-> now]
          /\ returned' = IF r.found THEN Append(returned, r.idx) ELSE returned
  /\ UNCHANGED <<strategy, now>>
  /\ UNCHANGED otherThanRot

\* reportKeyUsage with the threshold compared by > instead of >=
reportedKey_StrictThreshold(key, success, t) ==
  IF success
  THEN [key EXCEPT !.successCount = @ + 1,
                   !.consecutiveFailures = 0,
                   !.status = IF @ = "failed" THEN "active" ELSE @]
  ELSE LET k == [key EXCEPT !.failureCount = @ + 1, !.consecutiveFailures = @ + 1]
       IN IF k.consecutiveFailures > maxConsecutiveFailures
          THEN [k EXCEPT !.status = "failed", !.cooldownUntil = DateAt(t + cooldownPeriod)]
          ELSE k

\* the state changes of reportKeyUsage on the reported key
reportedKey(key, success, t) ==
  IF success
  THEN [key EXCEPT !.successCount = @ + 1,
                   !.consecutiveFailures = 0,
                   !.status = IF @ = "failed" THEN "active" ELSE @]
  ELSE LET k == [key EXCEPT !.failureCount = @ + 1, !.consecutiveFailures = @ + 1]
       IN IF k.consecutiveFailures >= maxConsecutiveFailures
          THEN [k EXCEPT !.status = "failed", !.cooldownUntil = DateAt(t + cooldownPeriod)]
          ELSE k

\* reportKeyUsage(apiKey, success) for a configured key
ReportKeyUsage ==
  \E i \in 1..Len(keys), success \in BOOLEAN :
    /\ Reports(keys) < MaxReports
    /\ keys' = [keys EXCEPT ![i] = reportedKey(keys[i], success, now)]
    /\ file' = persist(storeUp, file, saveState(keys', currentIndex, totalRequests))
    /\ lastOp' = [op |-> "report", success |-> success, idx |-> i - 1,
                  preKey |-> keys[i], time |-> now,
                  threw |-> saveStateThrows(storeUp)]
    /\ UNCHANGED <<strategy, currentIndex, totalRequests, now, returned>>
    /\ UNCHANGED otherThanRot

\* reportKeyUsage with a key that is not in this.keys: early return
ReportUnknownKey ==
  /\ lastOp.op # "report-unknown"
  /\ lastOp' = [op |-> "report-unknown"]
  /\ UNCHANGED <<strategy, keys, currentIndex, totalRequests, now, file, returned>>
  /\ UNCHANGED otherThanRot

\* the clock advances
Tick ==
  /\ now < MaxTime
  /\ now' = now + 1
  /\ lastOp' = [op |-> "tick"]
  /\ UNCHANGED <<strategy, keys, currentIndex, totalRequests, file, returned>>
  /\ UNCHANGED otherThanRot

\* process restart: a new manager runs initialize() on the file left behind
Initialize ==
  \E n \in 1..MaxKeys :
    LET r == restoreState(n, IF storeUp THEN file ELSE NoFile)
    IN /\ lastOp.op # "initialize"
       /\ keys' = r.keys
       /\ currentIndex' = r.currentIndex
       /\ totalRequests' = r.totalRequests
       /\ file' = persist(storeUp, file,
                          saveState(r.keys, r.currentIndex, r.totalRequests))
       /\ lastOp' = [op |-> "initialize", restored |-> (~file.missing /\ Len(file.keys) = n),
                     preFile |-> file, n |-> n]
       /\ returned' = <<>>
       /\ UNCHANGED <<strategy, now>>
       /\ UNCHANGED otherThanRot

(***************************************************************************)
(* The lock file of PersistenceService, shared by several processes.  The  *)
(* calls existsSync, writeFileSync, statSync and unlinkSync are atomic,    *)
(* and the calls of different processes interleave.  Time is counted in    *)
(* units of 15 s: the lock is stale when its age exceeds lockTimeout.      *)
(***************************************************************************)
Procs == 1..NumProcs

\* maxRetries of PersistenceService.acquireLock
maxRetries == 10

\* lockAge > 30000
lockTimeout == 2

NoLock == [exists |-> FALSE, age |-> 0, owner |-> 0]

\* a lock file written by process p: mtime is now, the content is the pid
LockOf(p) == [exists |-> TRUE, age |-> 0, owner |-> p]

NoLockLog ==
  [reclaimed |-> {}, youngRemoved |-> FALSE, gaveUp |-> FALSE, released |-> "none"]

LockIdle ==
  /\ lockFile = NoLock
  /\ lpc = [p \in Procs |-> "idle"]
  /\ tries = [p \in Procs |-> 0]
  /\ lockLog = NoLockLog

\* the processes start with no lock file, or with one that a process which
\* has died left behind some time ago
LockInit ==
  /\ lockFile \in {NoLock} \cup
                  {[exists |-> TRUE, age |-> a, owner |-> 0] : a \in 0..(lockTimeout + 1)}
  /\ lpc = [p \in Procs |-> "idle"]
  /\ tries = [p \in Procs |-> 0]
  /\ lockLog = NoLockLog

\* `continue`, or the end of an iteration: i++
NextIteration(p) ==
  /\ tries' = [tries EXCEPT ![p] = @ + 1]
  /\ lpc' = [lpc EXCEPT ![p] = "loop"]

\* saveData / loadData is called: acquireLock starts with i = 0
SaveData(p) ==
  /\ lpc[p] = "idle"
  /\ lpc' = [lpc EXCEPT ![p] = "loop"]
  /\ tries' = [tries EXCEPT ![p] = 0]
  /\ lockLog' = [lockLog EXCEPT !.reclaimed = @ \ {p}]
  /\ UNCHANGED lockFile
  /\ UNCHANGED otherThanLock

\* the head of the loop and existsSync(lockFilePath); after maxRetries
\* iterations acquireLock throws and the save is given up
ExistsSync(p) ==
  /\ lpc[p] = "loop"
  /\ IF tries[p] >= maxRetries
     THEN /\ lpc' = [lpc EXCEPT ![p] = "idle"]
          /\ lockLog' = [lockLog EXCEPT
                           !.gaveUp = @ \/ p \in lockLog.reclaimed]
     ELSE /\ lpc' = [lpc EXCEPT ![p] = IF lockFile.exists THEN "stat" ELSE "write"]
          /\ UNCHANGED lockLog
  /\ UNCHANGED <<lockFile, tries>>
  /\ UNCHANGED otherThanLock

\* writeFileSync(lockFilePath, pid): creates the file or overwrites it
WriteFileSync(p) ==
  /\ lpc[p] = "write"
  /\ lockFile' = LockOf(p)
  /\ lpc' = [lpc EXCEPT ![p] = "held"]
  /\ UNCHANGED <<tries, lockLog>>
  /\ UNCHANGED otherThanLock

\* statSync(lockFilePath) and the age test; ENOENT is caught: continue
StatSync(p) ==
  /\ lpc[p] = "stat"
  /\ IF ~lockFile.exists
     THEN NextIteration(p)
     ELSE /\ lpc' = [lpc EXCEPT ![p] = IF lockFile.age > lockTimeout
                                       THEN "unlink" ELSE "wait"]
          /\ UNCHANGED tries
  /\ UNCHANGED <<lockFile, lockLog>>
  /\ UNCHANGED otherThanLock

\* unlinkSync(lockFilePath) of a lock found stale, then continue
UnlinkSync(p) ==
  /\ lpc[p] = "unlink"
  /\ IF lockFile.exists
     THEN /\ lockFile' = NoLock
          /\ lockLog' = [lockLog EXCEPT
                           !.reclaimed = @ \cup {p},
                           !.youngRemoved = @ \/ lockFile.age <= lockTimeout]
     ELSE UNCHANGED <<lockFile, lockLog>>
  /\ NextIteration(p)
  /\ UNCHANGED otherThanLock

\* the retryDelay timer fires
RetryDelay(p) ==
  /\ lpc[p] = "wait"
  /\ NextIteration(p)
  /\ UNCHANGED <<lockFile, lockLog>>
  /\ UNCHANGED otherThanLock

\* the holder has read or written the data file: releaseLock()
\* a saveData that releases the lock after the write only, not in `finally`
ReleaseLock_NotInFinally(p) ==
  /\ lpc[p] = "held"
  /\ \E threw \in BOOLEAN :
       /\ lockFile' = IF threw THEN lockFile ELSE NoLock
       /\ lockLog' = [lockLog EXCEPT
            !.released = IF threw THEN "after-throw" ELSE "after-return"]
  /\ lpc' = [lpc EXCEPT ![p] = "idle"]
  /\ UNCHANGED tries
  /\ UNCHANGED otherThanLock

\* the body of saveData / loadData under the lock returns or throws, then
\* `finally` runs releaseLock
ReleaseLock(p) ==
  /\ lpc[p] = "held"
  /\ \E threw \in BOOLEAN :
       lockLog' = [lockLog EXCEPT
         !.released = IF threw THEN "after-throw" ELSE "after-return"]
  /\ lockFile' = NoLock
  /\ lpc' = [lpc EXCEPT ![p] = "idle"]
  /\ UNCHANGED tries
  /\ UNCHANGED otherThanLock

\* 15 s pass
AgeLock ==
  /\ lockFile.exists
  /\ lockFile.age <= lockTimeout
  /\ lockFile' = [lockFile EXCEPT !.age = @ + 1]
  /\ UNCHANGED <<lpc, tries, lockLog>>
  /\ UNCHANGED otherThanLock

(***************************************************************************)
(* Rotation manager under concurrent callers.  A call runs without         *)
(* interruption up to its first await, which is the `await acquireLock()`  *)
(* of PersistenceService.saveData; the write and the release follow in a   *)
(* later turn, and a caller that finds the lock file waits on a timer.     *)
(***************************************************************************)
Callers == 1..NumCallers

SaveIdle ==
  /\ pc = [p \in Callers |-> "idle"]
  /\ snap = [p \in Callers |-> NoFile]
  /\ retries = [p \in Callers |-> 0]
  /\ lockHeld = FALSE
  /\ storeUp = TRUE
  /\ LockIdle

\* one iteration of the acquireLock loop for a lock file younger than 30 s
acquireLock(held, used) ==
  IF used >= maxRetries THEN "throw"
  ELSE IF ~held THEN "locked"
  ELSE "waiting"

\* saveState() up to the first await: the snapshot is taken and acquireLock
\* makes its first attempt
BeginSave(p, data) ==
  LET a == acquireLock(lockHeld, 0)
  IN /\ snap' = [snap EXCEPT ![p] = data]
     /\ pc' = [pc EXCEPT ![p] = a]
     /\ retries' = [retries EXCEPT ![p] = IF a = "waiting" THEN 1 ELSE 0]
     /\ lockHeld' = (lockHeld \/ a = "locked")

CallGetNextApiKey(p) ==
  /\ pc[p] = "idle"
  /\ totalRequests < MaxRequests
  /\ \E rnd \in Draws(strategy, Len(keys)) :
       LET r == getNextLoop(strategy, keys, currentIndex, 0, rnd, now)
       IN /\ keys' = r.keys
          /\ currentIndex' = r.idx
          /\ totalRequests' = IF r.found THEN totalRequests + 1 ELSE totalRequests
          /\ IF r.found
             THEN BeginSave(p, saveState(r.keys, r.idx, totalRequests + 1))
             ELSE UNCHANGED saveVars
  /\ UNCHANGED <<strategy, now, file, lastOp, returned>>
  /\ UNCHANGED otherThanConc

CallReportKeyUsage(p) ==
  \E i \in 1..Len(keys), success \in BOOLEAN :
    /\ pc[p] = "idle"
    /\ Reports(keys) < MaxReports
    /\ keys' = [keys EXCEPT ![i] = reportedKey(keys[i], success, now)]
    /\ BeginSave(p, saveState(keys', currentIndex, totalRequests))
    /\ UNCHANGED <<strategy, currentIndex, totalRequests, now, file, lastOp, returned>>
    /\ UNCHANGED otherThanConc

\* saveData after `await this.acquireLock()`: writeFileSync, then releaseLock
WriteAndRelease(p) ==
  /\ pc[p] = "locked"
  /\ file' = persist(storeUp, file, snap[p])
  /\ lockHeld' = FALSE
  /\ pc' = [pc EXCEPT ![p] = "idle"]
  /\ UNCHANGED <<strategy, keys, currentIndex, totalRequests, now, lastOp, returned>>
  /\ UNCHANGED <<snap, retries>>
  /\ UNCHANGED otherThanConc

\* the retryDelay timer of a waiting caller fires.  A timer is a macrotask:
\* it cannot run while another caller is between taking the lock and its
\* write, which are one microtask apart.
RetryLock(p) ==
  /\ pc[p] = "waiting"
  /\ \A q \in Callers : pc[q] # "locked"
  /\ LET a == acquireLock(lockHeld, retries[p])
     IN /\ pc' = [pc EXCEPT ![p] = IF a = "throw" THEN "idle" ELSE a]
        /\ retries' = [retries EXCEPT ![p] = IF a = "waiting" THEN @ + 1 ELSE @]
        /\ lockHeld' = (lockHeld \/ a = "locked")
  /\ UNCHANGED rotVars
  /\ UNCHANGED snap
  /\ UNCHANGED otherThanConc

(***************************************************************************)
(* Error classification (errorDetection.ts).  An error is its `status`     *)
(* property (or NoStatus) and its message, a sequence of words; a keyword *)
(* is a sequence of words and String.includes is containment of the        *)
(* keyword's words in order and side by side.                              *)
(***************************************************************************)
Messages ==
  { <<"rate", "limit", "exceeded">>,
    <<"Quota", "exceeded">>,
    <<"pro", "quota", "exceeded">>,
    <<"throttled">>,
    <<"connection", "timeout">>,
    <<"status", "503">>,
    <<"bad", "request">> }

\* the value standing for an absent (undefined) HTTP status
NoStatus == 0

Errors == [status : {NoStatus, 429, 500}, message : Messages]

\* the errors handed to triggerFallback and raised by the backend
BackendErrors ==
  { [status |-> 429, message |-> <<"rate", "limit", "exceeded">>],
    [status |-> NoStatus, message |-> <<"bad", "request">>] }

\* String.prototype.toLowerCase on the words of a message
toLowerCase(m) ==
  [i \in DOMAIN m |-> CASE m[i] = "Quota" -> "quota"
                        [] m[i] = "Rate" -> "rate"
                        [] OTHER -> m[i]]

\* String.prototype.includes
includes(m, kw) ==
  \E i \in 1..(Len(m) - Len(kw) + 1) : SubSeq(m, i, i + Len(kw) - 1) = kw

\* parseInt of a word made of three digits, -1 for any other word
ThreeDigits(w) ==
  CASE w = "429" -> 429 [] w = "503" -> 503 [] w = "999" -> 999 [] OTHER -> -1

getErrorStatus(e) ==
  IF e.status # NoStatus
  THEN e.status
  ELSE LET hits == {i \in DOMAIN e.message : ThreeDigits(e.message[i]) # -1}
       IN IF hits = {}
          THEN NoStatus
          ELSE LET first == CHOOSE i \in hits : \A j \in hits : i <= j
                   status == ThreeDigits(e.message[first])
               IN IF status >= 100 /\ status < 600 THEN status ELSE NoStatus

quotaKeywords ==
  { <<"quota", "exceeded">>, <<"quota", "limit">>, <<"daily", "quota">>,
    <<"usage", "limit">>, <<"rate", "limit", "exceeded">>,
    <<"too", "many", "requests">> }

rateLimitKeywords ==
  { <<"429">>, <<"rate", "limit">>, <<"too", "many", "requests">>,
    <<"request", "limit">>, <<"throttled">> }

proQuotaKeywords ==
  { <<"pro", "quota">>, <<"pro", "model", "quota">>, <<"gemini-pro", "quota">>,
    <<"gemini-2.5-pro", "quota">>, <<"pro", "daily", "quota">> }

isQuotaExceededError(e) ==
  \E kw \in quotaKeywords : includes(toLowerCase(e.message), kw)

isRateLimitError(e) ==
  \/ getErrorStatus(e) = 429
  \/ \E kw \in rateLimitKeywords : includes(toLowerCase(e.message), kw)

isProQuotaExceededError(e) ==
  \E kw \in proQuotaKeywords : includes(toLowerCase(e.message), kw)

isGenericQuotaExceededError(e) ==
  IF isProQuotaExceededError(e) THEN FALSE ELSE isQuotaExceededError(e)

isServerError(e) ==
  LET status == getErrorStatus(e)
  IN status # NoStatus /\ status >= 500 /\ status < 600

getErrorType(e) ==
  IF isProQuotaExceededError(e) THEN "pro_quota_exceeded"
  ELSE IF isGenericQuotaExceededError(e) THEN "generic_quota_exceeded"
  ELSE IF isRateLimitError(e) THEN "rate_limit"
  ELSE IF isServerError(e) THEN "server_error"
  ELSE IF \/ includes(toLowerCase(e.message), <<"network">>)
          \/ includes(toLowerCase(e.message), <<"connection">>)
          \/ includes(toLowerCase(e.message), <<"timeout">>)
       THEN "network_error"
  ELSE "unknown_error"

fallbackTriggerTypes ==
  {"quota_exceeded", "rate_limit", "pro_quota_exceeded",
   "generic_quota_exceeded", "server_error"}

\* errorDetection.shouldTriggerFallback
shouldTriggerFallback(e) == getErrorType(e) \in fallbackTriggerTypes

(***************************************************************************)
(* Fallback controller: FallbackService behind FallbackManager.            *)
(* The load started by the constructor reads the store synchronously and   *)
(* resumes in the microtask queue, ahead of the continuation that lets the *)
(* client serve requests (initializeServices), so the operations below     *)
(* wait for LoadCompletes.                                                 *)
(***************************************************************************)
primaryModel == "gemini-2.5-pro"
fallbackModel == "gemini-2.5-flash"

\* model names a deployment sets with GEMINI_PRIMARY_MODEL / GEMINI_FALLBACK_MODEL
PrimaryModels == {primaryModel, "gemini-2.0-flash-exp"}
FallbackModels == {fallbackModel, "gemini-1.5-flash"}

\* ConfigLoader.getTriggerConditions: the default, or GEMINI_FALLBACK_TRIGGERS
getTriggerConditions == {"quota_exceeded", "rate_limit", "server_error"}
TriggerConfigs == {getTriggerConditions, {"rate_limit"}}

\* ConfigLoader.loadFallbackConfig
FbConfigs ==
  [primaryModel : PrimaryModels, fallbackModel : FallbackModels,
   triggerConditions : TriggerConfigs]

NoRow == [missing |-> TRUE]

\* FallbackState.lastError = null
NoLastError == [message |-> <<>>, type |-> "null"]

\* the state set up by the FallbackService constructor
FbInitialState(cfg) ==
  [isInFallbackMode |-> FALSE, currentModel |-> cfg.primaryModel,
   fallbackModel |-> cfg.fallbackModel, switchCount |-> 0, lastError |-> NoLastError]

\* SqliteFallbackPersistence.saveState: the row holds JSON.stringify(state)
fbSaveState(st) == [missing |-> FALSE, state |-> st]

\* loadPersistedState: this.state = { ...this.state, ...persistedState }
loadPersistedState(st, row) == IF row.missing THEN st ELSE row.state

\* FallbackManager.shouldTriggerFallback over FallbackService.shouldTriggerFallback
managerShouldTriggerFallback(enabled, st, e) ==
  IF ~enabled THEN FALSE
  ELSE IF st.isInFallbackMode THEN FALSE
  ELSE shouldTriggerFallback(e)

\* FallbackManager.getCurrentModel
getCurrentModel(enabled, cfg, st) ==
  IF ~enabled THEN cfg.primaryModel ELSE st.currentModel

\* performFallback without the switchCount increment
performFallback_NoCount(st, e) ==
  [st EXCEPT !.isInFallbackMode = TRUE,
             !.currentModel = st.fallbackModel,
             !.lastError = [message |-> e.message, type |-> getErrorType(e)]]

\* the state changes of performFallback
performFallback(st, e) ==
  [st EXCEPT !.isInFallbackMode = TRUE,
             !.currentModel = st.fallbackModel,
             !.switchCount = @ + 1,
             !.lastError = [message |-> e.message, type |-> getErrorType(e)]]

\* triggerFallback without its own fallback-mode check: the error raised by
\* performFallback is caught and reported as { success: false }
triggerFallback_Swallowed(enabled, st, e) ==
  IF ~enabled
  THEN [threw |-> TRUE, message |-> "not enabled", state |-> st, switched |-> FALSE]
  ELSE IF st.isInFallbackMode
       THEN [threw |-> FALSE, message |-> "", state |-> st, switched |-> FALSE]
       ELSE [threw |-> FALSE, message |-> "",
             state |-> performFallback(st, e), switched |-> TRUE]

\* FallbackService.triggerFallback behind FallbackManager.triggerFallback:
\* outcome of the call and the state it leaves
triggerFallback(enabled, st, e) ==
  IF ~enabled
  THEN [threw |-> TRUE, message |-> "not enabled", state |-> st, switched |-> FALSE]
  ELSE IF st.isInFallbackMode
       THEN [threw |-> TRUE, message |-> "Already in fallback mode",
             state |-> st, switched |-> FALSE]
       ELSE [threw |-> FALSE, message |-> "",
             state |-> performFallback(st, e), switched |-> TRUE]

\* the state changes of resetToPrimary
resetToPrimary(st, cfg) ==
  [st EXCEPT !.isInFallbackMode = FALSE,
             !.currentModel = cfg.primaryModel,
             !.lastError = NoLastError]

\* a Partial<FallbackConfig> naming the models; "" is a field left out
PartialConfigs == [primaryModel : PrimaryModels \cup {""},
                   fallbackModel : FallbackModels \cup {""}]

\* this.config = { ...this.config, ...newConfig }
mergeConfig(cfg, newConfig) ==
  [cfg EXCEPT !.primaryModel = IF newConfig.primaryModel # ""
                               THEN newConfig.primaryModel ELSE @,
              !.fallbackModel = IF newConfig.fallbackModel # ""
                                THEN newConfig.fallbackModel ELSE @]

\* the state changes of FallbackService.updateConfig
updateConfig(st, newConfig) ==
  LET s1 == IF newConfig.primaryModel # "" /\ ~st.isInFallbackMode
            THEN [st EXCEPT !.currentModel = newConfig.primaryModel]
            ELSE st
  IN IF newConfig.fallbackModel # ""
     THEN [s1 EXCEPT !.fallbackModel = newConfig.fallbackModel,
                     !.currentModel = IF s1.isInFallbackMode
                                      THEN newConfig.fallbackModel ELSE @]
     ELSE s1

\* clearAutoResetTimer that does nothing
clearAutoResetTimer_Noop(t) == t

\* clearAutoResetTimer that forgets the handle without clearTimeout
clearAutoResetTimer_KeepsTimeout(t) ==
  IF t.handle # "null" THEN [handle |-> "null", live |-> t.live] ELSE t

\* clearAutoResetTimer on <<this.autoResetTimer, scheduled timeouts>>
clearAutoResetTimer(t) ==
  IF t.handle # "null"
  THEN [handle |-> "null",
        live |-> IF t.handle = "pending" THEN t.live - 1 ELSE t.live]
  ELSE t

\* startAutoResetTimer
startAutoResetTimer(t, autoReset, service) ==
  LET c == clearAutoResetTimer(t)
  IN IF ~autoReset \/ ~service
     THEN c
     ELSE [handle |-> "pending", live |-> c.live + 1]

Timer == [handle |-> autoResetTimer, live |-> liveTimers]

\* config.enabled && this.fallbackService
ManagerUp == fbEnabled /\ fallbackService

FbIdle ==
  /\ fbEnabled = FALSE
  /\ autoResetEnabled = FALSE
  /\ fbConfig = [primaryModel |-> primaryModel, fallbackModel |-> fallbackModel,
                 triggerConditions |-> getTriggerConditions]
  /\ fallbackService = FALSE
  /\ fbState = FbInitialState(fbConfig)
  /\ fbDb = NoRow
  /\ fbLoadPending = FALSE
  /\ autoResetTimer = "null"
  /\ liveTimers = 0
  /\ fbQueue = <<>>
  /\ fbLast = NoOp

\* new FallbackManager(): the service is built, and its load started, only
\* when the configuration enables fallback
FbInit ==
  /\ fbEnabled \in BOOLEAN
  /\ autoResetEnabled \in BOOLEAN
  /\ fbConfig \in FbConfigs
  /\ fallbackService = fbEnabled
  /\ fbState = FbInitialState(fbConfig)
  /\ fbDb = NoRow
  /\ fbLoadPending = fbEnabled
  /\ autoResetTimer = "null"
  /\ liveTimers = 0
  /\ fbQueue = <<>>
  /\ fbLast = NoOp

\* shouldTriggerFallback(error); the history keeps the errorType computed by
\* errorDetection.shouldTriggerFallback when the call gets that far
\* a controller whose callers do not wait for the constructor's load
loadSettled_NotAwaited(pending) == TRUE

\* the continuation of the constructor's loadPersistedState() is queued
\* during initializeFallbackManager, ahead of the continuation of every
\* caller that awaits initializationPromise: calls find the load applied
loadSettled(pending) == ~pending

ShouldTriggerFallback ==
  \E e \in Errors :
    /\ loadSettled(fbLoadPending)
    /\ fbLast.op # "should"
    /\ fbLast' = [op |-> "should", err |-> e, pre |-> fbState,
                  result |-> managerShouldTriggerFallback(ManagerUp, fbState, e),
                  type |-> IF ManagerUp /\ ~fbState.isInFallbackMode
                           THEN getErrorType(e) ELSE "none"]
    /\ UNCHANGED <<fbSetup, fbState, fbDb, fbLoadPending, fbTimer, fbQueue>>
    /\ UNCHANGED otherThanFb

\* triggerFallback(error), up to its `await this.saveState()`
TriggerFallback ==
  \E e \in BackendErrors :
    LET r == triggerFallback(ManagerUp, fbState, e)
    IN /\ loadSettled(fbLoadPending)
       /\ fbState.switchCount < MaxSwitches
       /\ Len(fbQueue) < MaxQueue
       /\ fbState' = r.state
       /\ fbDb' = IF r.switched
                  THEN persist(storeUp, fbDb, fbSaveState(r.state)) ELSE fbDb
       /\ fbQueue' = IF r.switched THEN Append(fbQueue, "modelSwitched") ELSE fbQueue
       /\ fbLast' = [op |-> "trigger", threw |-> r.threw, message |-> r.message,
                     pre |-> fbState, err |-> e,
                     success |-> r.switched /\ ~saveStateThrows(storeUp),
                     newModel |-> fbState.fallbackModel,
                     previousModel |-> fbState.currentModel]
       /\ UNCHANGED <<fbSetup, fbLoadPending, fbTimer>>
       /\ UNCHANGED otherThanFb

\* the state part of a resetToPrimary call: nothing when already primary
ResetStep(op) ==
  /\ Len(fbQueue) < MaxQueue
  /\ IF ManagerUp /\ fbState.isInFallbackMode
     THEN /\ fbState' = resetToPrimary(fbState, fbConfig)
          /\ fbDb' = persist(storeUp, fbDb, fbSaveState(fbState'))
          /\ fbQueue' = Append(fbQueue, "modelReset")
     ELSE UNCHANGED <<fbState, fbDb, fbQueue>>
  /\ fbLast' = [op |-> op,
                threw |-> ~ManagerUp \/ (fbState.isInFallbackMode
                                           /\ saveStateThrows(storeUp)),
                pre |-> fbState]

\* resetToPrimary() called by an operator, up to its `await this.saveState()`
ResetToPrimary ==
  /\ loadSettled(fbLoadPending)
  /\ fbLast.op # "reset"
  /\ ResetStep("reset")
  /\ UNCHANGED <<fbSetup, fbLoadPending, fbTimer>>
  /\ UNCHANGED otherThanFb

\* a scheduled auto-reset timeout fires (a macrotask: no continuation is
\* waiting) and its callback calls resetToPrimary()
AutoResetFires ==
  /\ liveTimers > 0
  /\ fbQueue = <<>>
  /\ liveTimers' = liveTimers - 1
  /\ autoResetTimer' = IF autoResetTimer = "pending" THEN "fired" ELSE autoResetTimer
  /\ ResetStep("auto-reset")
  /\ UNCHANGED <<fbSetup, fbLoadPending>>
  /\ UNCHANGED otherThanFb

\* the code after `await this.saveState()`: the event is emitted and the
\* FallbackManager listener, if still attached, arms or clears the timer
EmitEvent ==
  /\ fbQueue # <<>>
  /\ fbQueue' = Tail(fbQueue)
  /\ LET t == IF ~fallbackService THEN Timer
              ELSE IF Head(fbQueue) = "modelSwitched"
                   THEN (IF autoResetEnabled
                         THEN startAutoResetTimer(Timer, autoResetEnabled, fallbackService)
                         ELSE Timer)
                   ELSE clearAutoResetTimer(Timer)
     IN /\ autoResetTimer' = t.handle
        /\ liveTimers' = t.live
  /\ fbLast' = [op |-> "emit", event |-> Head(fbQueue), pre |-> fbState,
                after |-> fbLast.op, armed |-> liveTimers]
  /\ UNCHANGED <<fbSetup, fbState, fbDb, fbLoadPending>>
  /\ UNCHANGED otherThanFb

\* loadPersistedState() resumes after `await this.persistence.loadState()`
LoadCompletes ==
  /\ fbLoadPending
  /\ fbLoadPending' = FALSE
  /\ fbState' = loadPersistedState(fbState, fbDb)
  /\ fbLast' = [op |-> "load"]
  /\ UNCHANGED <<fbSetup, fbDb, fbTimer, fbQueue>>
  /\ UNCHANGED otherThanFb

\* FallbackManager.updateConfig(newConfig) with new model names
UpdateConfig ==
  \E newConfig \in PartialConfigs :
    /\ loadSettled(fbLoadPending)
    /\ fbLast.op \notin {"none", "updateConfig"}
    /\ newConfig.primaryModel # "" \/ newConfig.fallbackModel # ""
    /\ fbConfig' = mergeConfig(fbConfig, newConfig)
    /\ fbState' = IF fallbackService THEN updateConfig(fbState, newConfig) ELSE fbState
    /\ fbLast' = [op |-> "updateConfig"]
    /\ UNCHANGED <<fbEnabled, autoResetEnabled, fallbackService>>
    /\ UNCHANGED <<fbDb, fbLoadPending, fbTimer, fbQueue>>
    /\ UNCHANGED otherThanFb

\* FallbackManager.destroy()
Destroy ==
  /\ fallbackService
  /\ loadSettled(fbLoadPending)
  /\ LET t == clearAutoResetTimer(Timer)
     IN /\ autoResetTimer' = t.handle
        /\ liveTimers' = t.live
  /\ fallbackService' = FALSE
  /\ fbLast' = [op |-> "destroy"]
  /\ UNCHANGED <<fbEnabled, autoResetEnabled, fbConfig>>
  /\ UNCHANGED <<fbState, fbDb, fbLoadPending, fbQueue>>
  /\ UNCHANGED otherThanFb

\* the process restarts: a new FallbackManager is constructed on the same
\* store, with the model names its environment now configures
FbRestart ==
  \E cfg \in FbConfigs :
    /\ fbEnabled
    /\ fbLast.op \notin {"none", "restart", "load"}
    /\ cfg.triggerConditions = fbConfig.triggerConditions
    /\ fbConfig' = cfg
    /\ fallbackService' = TRUE
    /\ fbState' = FbInitialState(cfg)
    /\ fbLoadPending' = TRUE
    /\ autoResetTimer' = "null"
    /\ liveTimers' = 0
    /\ fbQueue' = <<>>
    /\ fbLast' = [op |-> "restart"]
    /\ UNCHANGED <<fbEnabled, autoResetEnabled, fbDb>>
    /\ UNCHANGED otherThanFb

(***************************************************************************)
(* Request orchestrator: GeminiApiClient.sendMessageStream and             *)
(* executeStreamRequest over the rotation service and the fallback manager *)
(***************************************************************************)
Requests == 1..NumRequests

IdleRequest ==
  [pc |-> "idle", apiKey |-> "null", keyIdx |-> 0, acquire |-> "none",
   err |-> [status |-> NoStatus, message |-> <<>>],
   calls |-> 0, triggers |-> 0, outcome |-> "none",
   model |-> "none", sent |-> "none", waited |-> FALSE, reported |-> "none"]

\* this.config.getModel(): the model of the server configuration, with which
\* the content generator of an attempt is created
getModel == primaryModel

\* the client once initializeServices has completed
ClientReady == [isInitializing |-> FALSE, rotationService |-> TRUE]

OrchIdle ==
  /\ req = [r \in Requests |-> IdleRequest]
  /\ defaultKey = FALSE
  /\ started = 0
  /\ client = ClientReady
  /\ toolCall = NoToolCall
  /\ BridgeIdle

\* the client in service, with GEMINI_API_KEY set or not
OrchReady ==
  /\ req = [r \in Requests |-> IdleRequest]
  /\ defaultKey \in BOOLEAN
  /\ started = 0
  /\ client = ClientReady
  /\ toolCall = NoToolCall
  /\ BridgeIdle

\* the client when its constructor returns: initializeServices has set
\* isInitializing, created the RotationService and awaits its initialize()
OrchInit ==
  /\ req = [r \in Requests |-> IdleRequest]
  /\ defaultKey \in BOOLEAN
  /\ started = 0
  /\ client = [isInitializing |-> TRUE, rotationService |-> TRUE]
  /\ toolCall = NoToolCall
  /\ BridgeIdle

\* initializeServices resumes: rotationService.initialize() has resolved, or
\* it has thrown and rotationService is set to null; initializeFallbackManager
\* creates the manager and its finally block clears isInitializing
InitializeServices ==
  /\ client.isInitializing
  /\ \E ok \in BOOLEAN :
       client' = [isInitializing |-> FALSE, rotationService |-> ok]
  /\ UNCHANGED <<req, defaultKey, started, rotVars, fbVars, saveVars, storeVars, toolVars, bridgeVars>>

\* a sendMessageStream that goes on without waiting for the initialization
awaitsInitialization_Never(c) == FALSE

\* sendMessageStream: if (this.isInitializing && this.initializationPromise);
\* the promise is assigned in the constructor
awaitsInitialization(c) == c.isInitializing

\* RotationService.getApiKey: the rotated key, else getDefaultApiKey(), which
\* throws when GEMINI_API_KEY is not set
getApiKey(found, hasDefault) ==
  IF found THEN "rotated" ELSE IF hasDefault THEN "default" ELSE "throw"

\* sendMessageStream that lets a failed key acquisition end the request
sendMessageStreamKey_Rejects(k) ==
  [apiKey |-> IF k = "throw" THEN "null" ELSE k, rejected |-> k # "rotated"]

\* the try/catch around getApiKey in sendMessageStream: the error is logged
\* and the request goes on with currentApiKey = null
sendMessageStreamKey(k) ==
  [apiKey |-> IF k = "throw" THEN "null" ELSE k, rejected |-> FALSE]

\* rotationService.reportUsage(apiKey, success) on the key list: a key the
\* manager does not know (the default key) changes nothing
reportUsage(ks, r, success, t) ==
  IF r.apiKey = "rotated"
  THEN [ks EXCEPT ![r.keyIdx + 1] = reportedKey(ks[r.keyIdx + 1], success, t)]
  ELSE ks

\* sendMessageStream from the key acquisition to the first lines of
\* executeStreamRequest, where the current model is read
AcquireAndExecute(r) ==
  /\ started < MaxStarted
  /\ started' = started + 1
  /\ IF client.rotationService
     THEN \E rnd \in Draws(strategy, Len(keys)) :
       LET g == getNextLoop(strategy, keys, currentIndex, 0, rnd, now)
           k == sendMessageStreamKey(getApiKey(g.found, defaultKey))
       IN /\ keys' = g.keys
          /\ currentIndex' = g.idx
          /\ totalRequests' = IF g.found THEN totalRequests + 1 ELSE totalRequests
          /\ file' = IF g.found
                     THEN persist(storeUp, file,
                                  saveState(g.keys, g.idx, totalRequests + 1))
                     ELSE file
          /\ req' = [req EXCEPT ![r] =
                       [IdleRequest EXCEPT
                          !.pc = IF k.rejected THEN "done" ELSE "exec",
                          !.outcome = IF k.rejected THEN "ServiceUnavailable" ELSE "none",
                          !.apiKey = k.apiKey,
                          !.model = getCurrentModel(ManagerUp, fbConfig, fbState),
                          !.keyIdx = g.idx,
                          !.waited = req[r].pc = "waiting",
                          !.acquire = IF g.found THEN "key"
                                      ELSE "NoCredentialsAvailable"]]
     ELSE /\ req' = [req EXCEPT ![r] =
                       [IdleRequest EXCEPT
                          !.pc = "exec",
                          !.model = getCurrentModel(ManagerUp, fbConfig, fbState),
                          !.waited = req[r].pc = "waiting",
                          !.acquire = "skipped"]]
          /\ UNCHANGED <<keys, currentIndex, totalRequests, file>>
  /\ UNCHANGED <<strategy, now, lastOp, returned, defaultKey, client>>
  /\ UNCHANGED <<fbVars, saveVars, storeVars, toolVars, bridgeVars>>

\* sendMessageStream is called: it awaits the initialization promise when the
\* initialization is in progress, and goes on at once otherwise
SendMessageStream(r) ==
  /\ req[r].pc \in {"idle", "done"}
  /\ IF awaitsInitialization(client)
     THEN /\ req' = [req EXCEPT ![r] = [IdleRequest EXCEPT !.pc = "waiting"]]
          /\ UNCHANGED <<defaultKey, started, client, rotVars, fbVars, saveVars, storeVars, toolVars, bridgeVars>>
     ELSE AcquireAndExecute(r)

\* the initialization promise has resolved: sendMessageStream resumes
ResumeRequest(r) ==
  /\ req[r].pc = "waiting"
  /\ ~client.isInitializing
  /\ AcquireAndExecute(r)

\* executeStreamRequest: the backend call oneShotChat.sendMessageStream
\* returns a stream, and the success is reported
BackendSucceeds(r) ==
  /\ req[r].pc = "exec"
  /\ req[r].calls < MaxCalls
  /\ keys' = reportUsage(keys, req[r], TRUE, now)
  /\ file' = IF req[r].apiKey = "rotated"
             THEN persist(storeUp, file,
                          saveState(keys', currentIndex, totalRequests))
             ELSE file
  /\ req' = [req EXCEPT ![r].pc = "done", ![r].calls = @ + 1,
                        ![r].outcome = "stream", ![r].sent = getModel,
                        ![r].reported = IF req[r].apiKey # "null"
                                        THEN "success" ELSE @]
  /\ UNCHANGED <<strategy, currentIndex, totalRequests, now, lastOp, returned>>
  /\ UNCHANGED <<defaultKey, started, client, fbVars, saveVars, storeVars, toolVars, bridgeVars>>

\* executeStreamRequest: the backend call throws
BackendFails(r) ==
  \E e \in BackendErrors :
    /\ req[r].pc = "exec"
    /\ req[r].calls < MaxCalls
    /\ req' = [req EXCEPT ![r].pc = "caught", ![r].calls = @ + 1, ![r].err = e,
                          ![r].sent = getModel]
    /\ UNCHANGED <<defaultKey, started, client, rotVars, fbVars, saveVars, storeVars, toolVars, bridgeVars>>

\* executeStreamRequest throws before its try block: 'No message to send.'
\* when the message list leaves no last message, or the error of
\* createContentGenerator, which is logged and rethrown
PrepareFails(r) ==
  /\ req[r].pc = "exec"
  /\ req' = [req EXCEPT ![r].pc = "done", ![r].outcome = "setup-error"]
  /\ UNCHANGED <<defaultKey, started, client, rotVars, fbVars, saveVars, storeVars, toolVars, bridgeVars>>

\* the end of the catch block: the failure is reported and the error rethrown
SurfaceError(r) ==
  /\ keys' = reportUsage(keys, req[r], FALSE, now)
  /\ file' = IF req[r].apiKey = "rotated"
             THEN persist(storeUp, file,
                          saveState(keys', currentIndex, totalRequests))
             ELSE file
  /\ req' = [req EXCEPT ![r].pc = "done", ![r].outcome = "error",
                        ![r].reported = IF req[r].apiKey # "null"
                                        THEN "failure" ELSE @]
  /\ UNCHANGED <<strategy, currentIndex, totalRequests, now, lastOp, returned>>
  /\ UNCHANGED <<defaultKey, started, client, saveVars, storeVars, toolVars, bridgeVars>>

\* catch: shouldFallback = await this.fallbackManager.shouldTriggerFallback(error)
CheckFallback(r) ==
  /\ req[r].pc = "caught"
  /\ IF managerShouldTriggerFallback(ManagerUp, fbState, req[r].err)
     THEN /\ req' = [req EXCEPT ![r].pc = "decided"]
          /\ UNCHANGED <<defaultKey, started, client, rotVars, fbVars, saveVars, storeVars, toolVars, bridgeVars>>
     ELSE /\ SurfaceError(r)
          /\ UNCHANGED fbVars

\* catch: await this.fallbackManager.triggerFallback(error); when it throws
\* the original error is surfaced
RequestTriggersFallback(r) ==
  /\ req[r].pc = "decided"
  /\ Len(fbQueue) < MaxQueue
  /\ LET t == triggerFallback(ManagerUp, fbState, req[r].err)
     IN IF t.threw
        THEN /\ SurfaceError(r)
             /\ UNCHANGED fbVars
        ELSE /\ fbState' = t.state
             /\ fbDb' = persist(storeUp, fbDb, fbSaveState(t.state))
             /\ fbQueue' = Append(fbQueue, "modelSwitched")
             /\ fbLast' = [op |-> "trigger", threw |-> FALSE, message |-> "",
                           pre |-> fbState, err |-> req[r].err, success |-> TRUE,
                           newModel |-> fbState.fallbackModel,
                           previousModel |-> fbState.currentModel]
             /\ req' = [req EXCEPT ![r].pc = "triggering", ![r].triggers = @ + 1]
             /\ UNCHANGED <<fbSetup, fbLoadPending, fbTimer>>
             /\ UNCHANGED <<defaultKey, started, client, rotVars, saveVars, storeVars, toolVars, bridgeVars>>

\* triggerFallback has returned: executeStreamRequest calls itself with the
\* same apiKey and reads the current model again
RetryRequest(r) ==
  /\ req[r].pc = "triggering"
  /\ fbQueue = <<>>
  /\ req' = [req EXCEPT ![r].pc = "exec",
                        ![r].model = getCurrentModel(ManagerUp, fbConfig, fbState)]
  /\ UNCHANGED <<defaultKey, started, client, rotVars, fbVars, saveVars, storeVars, toolVars, bridgeVars>>

(***************************************************************************)
(* Specifications                                                          *)
(***************************************************************************)
\* the rotation manager used by one caller at a time
Init == RotInit /\ FbIdle /\ SaveIdle /\ OrchIdle

Next ==
  \/ GetNextApiKey
  \/ ReportKeyUsage
  \/ ReportUnknownKey
  \/ Tick
  \/ Initialize

Spec == Init /\ [][Next]_vars

RotIdle ==
  /\ strategy = "round-robin"
  /\ keys = initializeApiKeys(1)
  /\ currentIndex = 0
  /\ totalRequests = 0
  /\ now = 0
  /\ file = NoFile
  /\ lastOp = NoOp
  /\ returned = <<>>

\* the fallback controller
FbSpecInit == FbInit /\ RotIdle /\ SaveIdle /\ OrchIdle

FbNext ==
  \/ ShouldTriggerFallback
  \/ TriggerFallback
  \/ ResetToPrimary
  \/ AutoResetFires
  \/ EmitEvent
  \/ LoadCompletes
  \/ UpdateConfig
  \/ Destroy
  \/ FbRestart

FbSpec == FbSpecInit /\ [][FbNext]_vars

\* the rotation manager used by several callers at once
ConcInit == RotInit /\ FbIdle /\ SaveIdle /\ OrchIdle

ConcNext ==
  \E p \in Callers :
    \/ CallGetNextApiKey(p)
    \/ CallReportKeyUsage(p)
    \/ WriteAndRelease(p)
    \/ RetryLock(p)

ConcSpec == ConcInit /\ [][ConcNext]_vars

\* the fallback controller with its timers and continuations scheduled fairly
FbLiveSpec ==
  /\ FbSpecInit
  /\ [][FbNext]_vars
  /\ WF_vars(AutoResetFires)
  /\ WF_vars(EmitEvent)
  /\ WF_vars(LoadCompletes)

\* the fallback manager once its load has completed on an empty store
FbReady ==
  /\ fbEnabled \in BOOLEAN
  /\ autoResetEnabled \in BOOLEAN
  /\ fbConfig = [primaryModel |-> primaryModel, fallbackModel |-> fallbackModel,
                 triggerConditions |-> getTriggerConditions]
  /\ fallbackService = fbEnabled
  /\ fbState = FbInitialState(fbConfig)
  /\ fbDb = NoRow
  /\ fbLoadPending = FALSE
  /\ autoResetTimer = "null"
  /\ liveTimers = 0
  /\ fbQueue = <<>>
  /\ fbLast = NoOp

\* requests served by the client over the rotation and fallback services
\* (with the round-robin strategy: the client treats every strategy alike)
OrchSpecInit ==
  RotInit /\ strategy = "round-robin" /\ FbReady /\ SaveIdle /\ OrchReady

OrchNext ==
  \/ \E r \in Requests :
       \/ SendMessageStream(r)
       \/ BackendSucceeds(r)
       \/ BackendFails(r)
       \/ PrepareFails(r)
       \/ CheckFallback(r)
       \/ RequestTriggersFallback(r)
       \/ RetryRequest(r)
  \/ EmitEvent
  \/ ResetToPrimary
  \/ AutoResetFires

OrchSpec == OrchSpecInit /\ [][OrchNext]_vars

\* the persistence stores stop working (disk full, lock not obtainable)
StoreFails ==
  /\ storeUp
  /\ storeUp' = FALSE
  /\ UNCHANGED <<rotVars, fbVars, saveVars, orchVars, lockVars, toolVars, bridgeVars>>

\* the persistence stores work again
StoreRecovers ==
  /\ ~storeUp
  /\ storeUp' = TRUE
  /\ UNCHANGED <<rotVars, fbVars, saveVars, orchVars, lockVars, toolVars, bridgeVars>>

\* processes that share the persistence file and its lock file
LockSpecInit ==
  /\ RotIdle /\ FbIdle /\ OrchIdle
  /\ pc = [p \in Callers |-> "idle"]
  /\ snap = [p \in Callers |-> NoFile]
  /\ retries = [p \in Callers |-> 0]
  /\ lockHeld = FALSE
  /\ storeUp = TRUE
  /\ LockInit

LockNext ==
  \/ \E p \in Procs :
       \/ SaveData(p)
       \/ ExistsSync(p)
       \/ WriteFileSync(p)
       \/ StatSync(p)
       \/ UnlinkSync(p)
       \/ RetryDelay(p)
       \/ ReleaseLock(p)
  \/ AgeLock

LockSpec == LockSpecInit /\ [][LockNext]_vars

\* the rotation manager and the fallback controller over stores that fail
PersistSpecInit ==
  RotInit /\ strategy = "round-robin" /\ FbReady /\ SaveIdle /\ OrchIdle

\* (a few rotation operations are enough to outlive a failure of the store)
PersistNext ==
  \/ StoreFails
  \/ StoreRecovers
  \/ totalRequests < MaxStoreOps /\ GetNextApiKey
  \/ Reports(keys) < MaxStoreOps /\ ReportKeyUsage
  \/ TriggerFallback
  \/ ResetToPrimary
  \/ EmitEvent

PersistSpec == PersistSpecInit /\ [][PersistNext]_vars

\* requests arriving while the client initializes its services
InitSpecInit == RotInit /\ FbReady /\ SaveIdle /\ OrchInit

InitNext ==
  \/ InitializeServices
  \/ \E r \in Requests :
       \/ SendMessageStream(r)
       \/ ResumeRequest(r)
       \/ BackendSucceeds(r)
       \/ PrepareFails(r)

InitSpec == InitSpecInit /\ [][InitNext]_vars

(***************************************************************************)
(* Properties of the rotation manager                                      *)
(***************************************************************************)
AllActiveNoFailures ==
  \A i \in 1..Len(keys) : keys[i].status = "active" /\ keys[i].failureCount = 0

\* C1: under round-robin, with N active keys and no failures, any N
\* consecutive getNextApiKey calls return N different keys and the order
\* repeats every N calls
C1_RoundRobinVisitsEachKey ==
  (strategy = "round-robin" /\ AllActiveNoFailures) =>
    \A i, j \in 1..Len(returned) :
      i < j => /\ (j - i < Len(keys) => returned[i] # returned[j])
               /\ (j - i = Len(keys) => returned[i] = returned[j])

\* C2: getNextApiKey never returns a key that was in cooldown with
\* now < cooldownUntil when the call was made
C2_NeverReturnsCoolingKey ==
  (lastOp.op = "acquire" /\ lastOp.found) => Usable(lastOp.preKey, lastOp.time)

\* C3: a key in cooldown whose cooldownUntil has passed is, when getNextApiKey
\* considers it, flipped back to active with consecutiveFailures cleared
C3_ExpiredCooldownClearsFailures ==
  (/\ lastOp.op = "acquire" /\ lastOp.found
   /\ lastOp.preKey.status = "failed"
   /\ Usable(lastOp.preKey, lastOp.time))
    => /\ keys[lastOp.idx + 1].status = "active"
       /\ keys[lastOp.idx + 1].consecutiveFailures = 0

\* C4: getNextApiKey examines at most len(keys) candidates and fails with
\* 'No available API keys found' if and only if no key was usable at the call
C4_FailsIffNoneUsable ==
  lastOp.op = "acquire" =>
    /\ lastOp.examined <= Len(keys)
    /\ lastOp.found <=> lastOp.preUsable

\* C5: currentIndex is always a valid index into keys
C5_CurrentIndexValid == currentIndex \in 0..(Len(keys) - 1)

C5_Witness ==
  lastOp.op = "initialize" /\ lastOp.restored /\ currentIndex > 0

\* C6: a failure report adds one to failureCount and consecutiveFailures of
\* the reported key; at or above maxConsecutiveFailures the key becomes failed
\* with cooldownUntil = now + cooldownPeriod, below it the status is unchanged
C6_FailureReport ==
  (lastOp.op = "report" /\ ~lastOp.success) =>
    LET pre  == lastOp.preKey
        post == keys[lastOp.idx + 1]
    IN /\ post.failureCount = pre.failureCount + 1
       /\ post.consecutiveFailures = pre.consecutiveFailures + 1
       /\ IF post.consecutiveFailures >= maxConsecutiveFailures
          THEN /\ post.status = "failed"
               /\ post.cooldownUntil = DateAt(lastOp.time + cooldownPeriod)
          ELSE post.status = pre.status

C6_Witness ==
  /\ lastOp.op = "report" /\ ~lastOp.success
  /\ lastOp.preKey.status = "active"
  /\ keys[lastOp.idx + 1].status = "failed"
  /\ keys[lastOp.idx + 1].consecutiveFailures = maxConsecutiveFailures

\* C7: under least-used every getNextApiKey returns the active key with the
\* smallest requestCount, the lowest index among equals
C7_LeastUsedReturnsMinimum ==
  (strategy = "least-used" /\ lastOp.op = "acquire" /\ lastOp.found) =>
    lastOp.idx = lastOp.preLeast

\* C8: getNextApiKey and reportKeyUsage are atomic with their save: once no
\* call is in progress the persisted keys and totalRequests are those in
\* memory, as after every sequential order of the calls; no update is lost
C8_NoLostUpdate ==
  (\A p \in Callers : pc[p] = "idle") =>
    /\ ~file.missing
    /\ file.keys = saveState(keys, currentIndex, totalRequests).keys
    /\ file.totalRequests = totalRequests

(***************************************************************************)
(* Properties of the fallback controller                                   *)
(***************************************************************************)
SameMode(a, b) ==
  /\ a.isInFallbackMode = b.isInFallbackMode
  /\ a.currentModel = b.currentModel
  /\ a.switchCount = b.switchCount

C10_SwitchCountPerTransition ==
  [][/\ (fbLast'.op = "trigger" /\ fbState.isInFallbackMode)
          => fbState'.switchCount = fbState.switchCount
     /\ (fbLast'.op = "trigger" /\ ~fbState.isInFallbackMode
          /\ fbState'.isInFallbackMode)
          => fbState'.switchCount = fbState.switchCount + 1
     /\ (fbLast'.op \in {"reset", "auto-reset", "emit"})
          => fbState'.switchCount = fbState.switchCount]_vars

C10_Witness ==
  /\ fbLast.op = "trigger" /\ ~fbLast.threw
  /\ ~fbLast.pre.isInFallbackMode /\ fbLast.pre.switchCount = 1
  /\ fbState.isInFallbackMode /\ fbState.switchCount = 2

\* the trigger condition a classification falls under
TriggerKind(type) ==
  CASE type \in {"quota_exceeded", "pro_quota_exceeded", "generic_quota_exceeded"}
         -> "quota_exceeded"
    [] OTHER -> type

\* C11: on an enabled controller shouldTriggerFallback(error) answers true
\* exactly when the classification of the error is one of the configured
\* trigger conditions and the controller is in primary mode
C11_ShouldFallbackIffConfiguredTrigger ==
  (fbLast.op = "should" /\ ManagerUp) =>
    (fbLast.result <=>
       /\ TriggerKind(getErrorType(fbLast.err)) \in fbConfig.triggerConditions
       /\ ~fbLast.pre.isInFallbackMode)

\* C12: with auto-reset enabled and no call or load in progress, fallback
\* mode implies a pending auto-reset timer
C12_FallbackHasPendingTimer ==
  (/\ ManagerUp /\ autoResetEnabled /\ fbState.isInFallbackMode
   /\ fbQueue = <<>> /\ ~fbLoadPending)
    => (autoResetTimer = "pending" /\ liveTimers > 0)

\* C13: unless the process keeps being restarted, a controller in fallback
\* mode with auto-reset enabled gets back to primary mode, with the current
\* model the primary model again, or is shut down
C13_AutoResetReturnsToPrimary ==
  (<>[](fbLast.op # "restart")) =>
    ((ManagerUp /\ autoResetEnabled /\ fbState.isInFallbackMode)
       ~> (\/ ~ManagerUp
           \/ (/\ ~fbState.isInFallbackMode
               /\ getCurrentModel(ManagerUp, fbConfig, fbState)
                    = fbConfig.primaryModel)))

\* C14: at most one auto-reset timeout is scheduled at any time
C14_AtMostOneTimer == liveTimers <= 1

C14_Witness ==
  /\ fbLast.op = "emit" /\ fbLast.event = "modelSwitched"
  /\ fbState.switchCount = 2 /\ fbState.isInFallbackMode
  /\ autoResetTimer = "pending" /\ liveTimers = 1

\* C15: a completed resetToPrimary and destroy leave no timeout scheduled;
\* in primary mode with no call in progress none is scheduled; only the
\* completion of a triggerFallback schedules one; a timeout that fires is
\* used up and makes one resetToPrimary call
C15_TimerCancelledOnResetAndDestroy ==
  /\ []((ManagerUp /\ ~fbState.isInFallbackMode /\ fbQueue = <<>>)
          => (liveTimers = 0))
  /\ [][/\ (fbLast'.op = "emit" /\ fbLast'.event = "modelReset" /\ fallbackService)
             => (liveTimers' = 0 /\ autoResetTimer' = "null")
        /\ (fbLast'.op = "destroy")
             => (liveTimers' = 0 /\ autoResetTimer' = "null")
        /\ (liveTimers' > liveTimers)
             => (fbLast'.op = "emit" /\ fbLast'.event = "modelSwitched")
        /\ (fbLast'.op = "auto-reset")
             => /\ liveTimers' = liveTimers - 1
                /\ (fbState.isInFallbackMode /\ ManagerUp)
                     => (/\ ~fbState'.isInFallbackMode
                         /\ fbQueue' = Append(fbQueue, "modelReset"))]_vars

C15_Witness ==
  /\ fbLast.op = "emit" /\ fbLast.event = "modelReset"
  /\ fbLast.after = "reset" /\ fbLast.armed = 1
  /\ liveTimers = 0 /\ autoResetTimer = "null"

\* C16: the current model is the configured fallback model in fallback mode
\* and the configured primary model otherwise
C16_CurrentModelMatchesMode ==
  getCurrentModel(ManagerUp, fbConfig, fbState)
    = IF ManagerUp /\ fbState.isInFallbackMode
      THEN fbConfig.fallbackModel
      ELSE fbConfig.primaryModel

\* C17: a triggerFallback call made in primary mode leaves the controller in
\* fallback mode on the configured fallback model, with lastError recorded,
\* switchCount one higher, the state persisted and one modelSwitched event
\* queued, and answers {newModel: fallback model, previousModel: primary model}
C17_TriggerPerformsTransition ==
  [][(fbLast'.op = "trigger" /\ ManagerUp /\ ~fbState.isInFallbackMode)
       => /\ ~fbLast'.threw
          /\ fbState'.isInFallbackMode
          /\ fbState'.currentModel = fbConfig.fallbackModel
          /\ fbState'.lastError # NoLastError
          /\ fbState'.switchCount = fbState.switchCount + 1
          /\ fbDb' = fbSaveState(fbState')
          /\ fbQueue' = Append(fbQueue, "modelSwitched")
          /\ fbLast'.newModel = fbConfig.fallbackModel
          /\ fbLast'.previousModel = fbConfig.primaryModel]_vars

\* C18: an error with status 429 and the message "rate limit exceeded" is
\* classified as rate_limit
C18_RateLimit429IsRateLimited ==
  (/\ fbLast.op = "should" /\ fbLast.type # "none"
   /\ fbLast.err = [status |-> 429, message |-> <<"rate", "limit", "exceeded">>])
    => fbLast.type = "rate_limit"

(***************************************************************************)
(* Properties of the request orchestrator                                  *)
(***************************************************************************)
\* C19: no request triggers the fallback more than once
C19_AtMostOneFallbackRetry ==
  \A r \in Requests : req[r].triggers <= 1

C21_BackendUsesCurrentModel ==
  \A r \in Requests : req[r].calls > 0 => req[r].sent = req[r].model

\* C22: a request that obtained a key and whose error is surfaced to the
\* caller has issued a failure report for that key
C22_SurfacedErrorIsReported ==
  \A r \in Requests :
    (req[r].pc = "done" /\ req[r].apiKey # "null"
       /\ req[r].outcome \in {"error", "setup-error"})
      => req[r].reported = "failure"

\* C23: while the initialization of the client is in progress no request
\* has acquired a key or read the current model
C23_RequestsAwaitInitialization ==
  client.isInitializing =>
    \A r \in Requests : req[r].acquire = "none" /\ req[r].model = "none"

C23_Witness ==
  \E r \in Requests :
    req[r].waited /\ req[r].acquire = "key" /\ req[r].model # "none"

(***************************************************************************)
(* Properties of the persistence layer                                     *)
(***************************************************************************)
\* C24: a failing store fails no operation: getNextApiKey returns the key it
\* selected, reportKeyUsage, triggerFallback and resetToPrimary complete, and
\* the operations go on from the in-memory state (every acquisition counted,
\* the mode as the last transition left it)
C24_PersistenceFailureSwallowed ==
  /\ lastOp.op = "acquire" => lastOp.found = lastOp.selected
  /\ lastOp.op = "report" => ~lastOp.threw
  /\ totalRequests = Len(returned)
  /\ (fbLast.op = "trigger" /\ ManagerUp) =>
       IF fbLast.pre.isInFallbackMode
       THEN fbLast.threw
       ELSE ~fbLast.threw /\ fbLast.success /\ fbState.isInFallbackMode
  /\ (fbLast.op = "reset" /\ ManagerUp) =>
       ~fbLast.threw /\ ~fbState.isInFallbackMode

C24_Witness ==
  /\ ~storeUp
  /\ lastOp.op = "acquire" /\ lastOp.found
  /\ file # saveState(keys, currentIndex, totalRequests)
  /\ fbLast.op = "trigger" /\ fbLast.success
  /\ fbDb = NoRow

\* C25: at most one process is between taking the lock and releasing it
C25_SingleWriter ==
  Cardinality({p \in Procs : lpc[p] = "held"}) <= 1

\* C26: an acquisition that removed a stale lock does not give up, and no
\* lock younger than the timeout is removed by a process that does not hold it
C26_StaleLockReclaimed ==
  /\ ~lockLog.gaveUp
  /\ ~lockLog.youngRemoved

(***************************************************************************)
(* A first start and the restarts that follow it                           *)
(***************************************************************************)
\* new ApiKeyRotationManager(...): no keys yet, and no file has been written
Constructed ==
  /\ strategy = "round-robin"
  /\ keys = <<>>
  /\ currentIndex = 0
  /\ totalRequests = 0
  /\ now = 0
  /\ file = NoFile
  /\ lastOp = NoOp
  /\ returned = <<>>

RestartSpecInit == Constructed /\ FbIdle /\ SaveIdle /\ OrchIdle

RestartNext ==
  \/ Initialize
  \/ keys # <<>> /\ GetNextApiKey
  \/ keys # <<>> /\ ReportKeyUsage
  \/ Tick

RestartSpec == RestartSpecInit /\ [][RestartNext]_vars

\* C27: initialize takes over the persisted keys, currentIndex and
\* totalRequests exactly when a file was loaded whose key list has the
\* configured size; with no file, or with another size, it starts with
\* currentIndex 0, totalRequests 0 and every key fresh (active, counters 0).
C27_InitializeAdoptsMatchingState ==
  lastOp.op = "initialize" =>
    LET d == lastOp.preFile
    IN /\ Len(keys) = lastOp.n
       /\ IF ~d.missing /\ Len(d.keys) = lastOp.n
          THEN /\ keys = d.keys
               /\ currentIndex = d.currentIndex
               /\ totalRequests = d.totalRequests
          ELSE /\ keys = [i \in 1..lastOp.n |-> FreshKey]
               /\ \A i \in 1..lastOp.n : keys[i].status = "active"
               /\ currentIndex = 0
               /\ totalRequests = 0

\* a restart that found a used file of another size and started fresh
C27_Witness ==
  /\ lastOp.op = "initialize"
  /\ ~lastOp.preFile.missing
  /\ Len(lastOp.preFile.keys) # lastOp.n
  /\ lastOp.preFile.totalRequests > 0
  /\ totalRequests = 0

\* C28: the state just saved, when loaded again, is the state that was saved:
\* same keys (status, counters, cooldownUntil), currentIndex and totalRequests
C28_SaveLoadRoundTrip ==
  (~file.missing /\ file = saveState(keys, currentIndex, totalRequests)) =>
    LET r == restoreState(Len(keys), file)
    IN /\ r.keys = keys
       /\ r.currentIndex = currentIndex
       /\ r.totalRequests = totalRequests

\* C29: a key that was restored from the file in cooldown (its cooldownUntil
\* is the persisted one) is not returned by getNextApiKey before that time
C29_CooldownSurvivesRestart ==
  (/\ lastOp.op = "acquire" /\ lastOp.found
   /\ lastOp.preKey.status = "failed"
   /\ lastOp.preKey.cooldownUntil.kind = "string")
    => lastOp.time >= lastOp.preKey.cooldownUntil.t

(***************************************************************************)
(* Tool calls                                                              *)
(***************************************************************************)
ToolSpecInit == RotIdle /\ FbIdle /\ SaveIdle /\ OrchIdle

ToolNext ==
  \/ EmitToolCall
  \/ ToolResponseToGemini

ToolSpec == ToolSpecInit /\ [][ToolNext]_vars

\* C30: the function name parsed from the id call_{name}_{uuid} of a tool
\* call is the name the id was built from, also when the name contains '_'
C30_NameRecoveredFromId ==
  toolCall.pc = "answered" => toolCall.response = toolCall.name

\* a tool result for a function whose name contains the delimiter
C30_Witness ==
  /\ toolCall.pc = "answered"
  /\ \E i \in 1..Len(toolCall.name) : toolCall.name[i] = "_"
  /\ Len(toolCall.name) > 1
  /\ toolCall.response = toolCall.name

(***************************************************************************)
(* Translation of a request and of its retry                               *)
(***************************************************************************)
TransSpecInit == RotIdle /\ FbIdle /\ SaveIdle /\ OrchIdle

TransNext ==
  \/ ReceiveMessages
  \/ TranslateRequest
  \/ RetryWithMessages

TransSpec == TransSpecInit /\ [][TransNext]_vars

SystemCount(contents) ==
  Cardinality({i \in 1..Len(contents) : contents[i].from = "system"})

\* C31: in the first request sent, when the client's system prompt is the
\* instruction (no internal prompt) no Content of the history or the last
\* message comes from a system message; with the internal prompt no
\* instruction is set and every system message is a user turn of the history
C31_SystemContentPlacement ==
  Len(conv.sent) >= 1 =>
    LET s == conv.sent[1]
        turns == Append(s.history, s.lastMessage)
    IN IF ~conv.useInternalPrompt
       THEN /\ SystemCount(turns) = 0
            /\ (findSystemIndex(conv.original) > 0 => s.systemInstruction.from = "system")
       ELSE /\ s.systemInstruction = NoContent
            /\ Len(turns) = Len(conv.original)
            /\ \A i \in 1..Len(turns) :
                 conv.original[i].role = "system" =>
                   turns[i] = [role |-> "user", text |-> conv.original[i].content,
                               from |-> "system"]

\* C35: the caller's message list is never modified, and the retry sends
\* the same instruction, history and last message as the first attempt
C35_RetrySendsSameRequest ==
  /\ conv.pc # "none" => conv.messages = conv.original
  /\ Len(conv.sent) = 2 => conv.sent[2] = conv.sent[1]

(***************************************************************************)
(* One call of the gemini CLI                                              *)
(***************************************************************************)
CliSpecInit == RotIdle /\ FbIdle /\ SaveIdle /\ OrchIdle

CliNext ==
  \/ ExecuteGeminiCli
  \/ ChildCloses
  \/ ChildError
  \/ TimerFires

CliSpec == CliSpecInit /\ [][CliNext]_vars

\* MAX_TIMEOUT as configured, 300 when the variable is not set
ConfiguredMax(env) == IF env.MAX_TIMEOUT.nan THEN defaultMaxTimeout ELSE env.MAX_TIMEOUT.n

\* C33 as stated: the timeout of a call never exceeds the configured maximum
C33_TimeoutWithinConfiguredMax ==
  cliCall.child # "none" => cliCall.timeoutMs <= ConfiguredMax(cliCall.env) * 1000

\* C33: the timeout is the value of the request's shape (complex flag before
\* tools before plain text), cut down to the maximum, where a maximum that is
\* unset, not a number or 0 counts as 300 seconds
C33_TimeoutByShapeCapped ==
  cliCall.child # "none" =>
    LET e == cliCall.env
        shape == IF cliCall.hasComplexArgs
                 THEN parseIntOr(e.COMPLEX_QUERY_TIMEOUT, complexQueryTimeout)
                 ELSE IF cliCall.hasTools
                 THEN parseIntOr(e.FUNCTION_CALL_TIMEOUT, functionCallTimeout)
                 ELSE parseIntOr(e.DEFAULT_TIMEOUT, defaultTimeout)
        max == IF e.MAX_TIMEOUT.nan \/ e.MAX_TIMEOUT.n = 0
               THEN defaultMaxTimeout ELSE e.MAX_TIMEOUT.n
    IN /\ cliCall.timeoutMs <= max * 1000
       /\ cliCall.timeoutMs \in {shape * 1000, max * 1000}
       /\ shape <= max => cliCall.timeoutMs = shape * 1000

\* a call with tools and a complex flag whose complex value is above the maximum
C33_Witness ==
  /\ cliCall.child # "none"
  /\ cliCall.hasComplexArgs /\ cliCall.hasTools
  /\ cliCall.env.COMPLEX_QUERY_TIMEOUT = Num(400)
  /\ cliCall.env.MAX_TIMEOUT = Num(150)
  /\ cliCall.timeoutMs = 150000

\* C39: once the call has settled the child is not running and the timer
\* is not pending
C39_SettledCallHoldsNothing ==
  cliCall.outcome # "none" =>
    /\ cliCall.child # "running"
    /\ cliCall.timer # "armed"

(***************************************************************************)
(* The chat handler of the CLI bridge                                      *)
(***************************************************************************)
ChatSpecInit == RotIdle /\ FbIdle /\ SaveIdle /\ OrchIdle

ChatNext ==
  \/ StartServer
  \/ \E r \in ChatReqs :
       \/ HandleChatCompletions(r)
       \/ CliResolves(r)
       \/ CliRejects(r)

ChatSpec == ChatSpecInit /\ [][ChatNext]_vars

\* C32: a streamed response is some chunks without finish_reason, then one
\* chunk with finish_reason (tool_calls if a tool call was emitted, else
\* stop), then the [DONE] line, and nothing else
C32_StreamEndsWithFinishThenDone ==
  \A r \in ChatReqs :
    (chat.req[r].pc = "done" /\ chat.req[r].status = 200 /\ chat.req[r].stream) =>
      LET out == stream[r]
          n == Len(out)
      IN /\ n >= 2
         /\ out[n] = SseDone
         /\ out[n - 1].finish_reason =
              (IF \E i \in 1..n : out[i].tool_calls THEN "tool_calls" ELSE "stop")
         /\ \A i \in 1..(n - 1) : out[i] # SseDone
         /\ \A i \in 1..(n - 2) : out[i].finish_reason = "none"

\* C40: when every request has finished, each key's requests are its
\* successes plus its failures
C40_EveryKeyUseReported ==
  (\A r \in ChatReqs : chat.req[r].pc = "done") =>
    \A k \in 1..Len(chat.usageStats) :
      chat.usageStats[k].requests =
        chat.usageStats[k].successes + chat.usageStats[k].failures

(***************************************************************************)
(* Accounts                                                                *)
(***************************************************************************)
AcctSpecInit == RotIdle /\ FbIdle /\ SaveIdle /\ OrchIdle

AcctNext ==
  \/ CreateManager
  \/ RecordModelUsage
  \/ RotateToNextAccount
  \/ HandleEnhancedFlashFallback

AcctSpec == AcctSpecInit /\ [][AcctNext]_vars

\* accounts other than i that are active and below their Pro limit
OthersWithQuota(i) ==
  {j \in 0..(Len(acct.accounts) - 1) : j # i /\ canUseProModel(acct.accounts, j)}

\* C34: after the handler ran for an account whose Pro quota is used up (and
\* no switch of credentials failed), the manager is on another account that
\* is active with Pro quota left whenever there is one, and the Flash
\* fallback is taken only when there is none
C34_SwitchesToAccountWithQuota ==
  (acct.last.op = "flash-fallback" /\ ~acct.last.authFailed) =>
    /\ OthersWithQuota(acct.last.from) # {} =>
         /\ acct.last.result = "switched"
         /\ acct.currentAccountIndex \in OthersWithQuota(acct.last.from)
    /\ acct.last.result = "flash" => OthersWithQuota(acct.last.from) = {}

(***************************************************************************)
(* Concurrent requests and the fallback controller                         *)
(***************************************************************************)
\* C36: a request for which shouldTriggerFallback answered true goes on to
\* its retry with the fallback model; it never ends with its error instead
C36_EveryDecidedRequestRetries ==
  [][\A r \in Requests :
       (req[r].pc = "decided" /\ req'[r].pc # "decided") => req'[r].pc = "triggering"]_vars

C38_LockReleasedOnAllPaths ==
  \A p \in Procs :
    /\ lpc[p] = "idle" => ~(lockFile.exists /\ lockFile.owner = p)
    /\ tries[p] <= maxRetries

\* a call whose body threw under the lock has completed and the lock is gone
C38_Witness ==
  /\ lockLog.released = "after-throw"
  /\ \A p \in Procs : lpc[p] = "idle"
  /\ ~lockFile.exists

====
